---- MODULE Spec2Model ----
(***************************************************************************)
(* A model of the npm registry client of src/index.js: the Registry        *)
(* constructor, Registry.prototype.send with its response handler parse,   *)
(* Registry.prototype.downgrade (mirror de-duplication and rotation) and   *)
(* the hand-over to the exponential back off of the `back` module.         *)
(*                                                                         *)
(* One client is constructed; a fixed set of send calls is issued on it.   *)
(* Every send call owns a closure (its local `mirrors` array, its          *)
(* Assignment); the closure of call c is calls[c]. The `options` object of *)
(* a call is the caller's when one is given, and is written on by send.    *)
(* HTTP requests and back off timers are asynchronous: a request in flight *)
(* and a pending timer are positions of the call (pc), completed by the    *)
(* actions Parse and Timer in any interleaving.                            *)
(***************************************************************************)
EXTENDS Naturals, Sequences, FiniteSets, TLC

\* ------------------------------------------------------------- bounds

\* Longest `mirrors` option given to the constructor.
MaxMirrors == 2

\* Largest `retries` option given to the constructor (at least 1).
MaxRetries == 2

\* The send calls issued on the client.
Calls == {"a", "b"}

\* ---------------------------------------------------------- JS values

\* JavaScript values that are not URLs are tagged records {kind, val}.
Undefined == [kind |-> "undefined", val |-> <<>>]

Num(n) == [kind |-> "number", val |-> n]

Arr(items) == [kind |-> "array", val |-> items]

\* A string, held as the sequence of its characters.
Str(chars) == [kind |-> "string", val |-> chars]

\* An object literal {} (a structured body).
EmptyObject == [kind |-> "object", val |-> <<>>]

\* Entries of the mirror list are JavaScript strings; the falsy one is the
\* empty string.
Falsy == {""}

\* !item of dedupe
Truthy(item) == item \notin Falsy

\* ------------------------------------------------------ configuration

\* The URLs a configuration is drawn from: the primary and two mirrors.
Urls == {"http://p/", "http://m1/", "http://m2/"}

\* What an entry of the `mirrors` option may be.
MirrorEntries == Urls \cup Falsy

\* Every sequence over S of length at most n.
SeqUpTo(S, n) == UNION {[1..k -> S] : k \in 0..n}

\* args.str of send: the path that is requested.
Path == "/pkg"

\* url.resolve(root, args.str) for a root ending in "/": the root's origin
\* followed by the path.
Resolve(root, str) == <<root, str>>

\* -------------------------------------------------------- HTTP results

\* The (err, res, body) a request hands to parse. err: a transport error;
\* res: a response object exists; statusCode: res.statusCode (0 without res).
Response(err, res, statusCode, body) ==
  [err |-> err, res |-> res, statusCode |-> statusCode, body |-> body]

NoResponse == Response(FALSE, FALSE, 0, Undefined)

\* The characters of the bodies below.
Digits == {"1", "2"}

DigitVal(ch) == IF ch = "1" THEN 1 ELSE 2

\* Bodies of a 200 answer: strings of valid JSON, strings that are not JSON,
\* and bodies the transport already parsed.
Bodies ==
  { Str(<<"[", "1", ",", "2", "]">>), Str(<<"[", "]">>),
    Str(<<"[", "1", ",">>), Str(<<"{">>), EmptyObject }

\* Status codes of an answer that is not a 200.
StatusCodes == {500}

Responses ==
  { Response(TRUE, FALSE, 0, Undefined), NoResponse }
    \cup { Response(FALSE, TRUE, code, Undefined) : code \in StatusCodes }
    \cup { Response(FALSE, TRUE, 200, body) : body \in Bodies }

\* ---------------------------------------------------------- JSON.parse

\* The result of a parse step: ok, the value read, the characters left.
ParseFailed == [ok |-> FALSE, val |-> Undefined, rest |-> <<>>]

Parsed(val, rest) == [ok |-> TRUE, val |-> val, rest |-> rest]

\* A run of digits, most significant first.
RECURSIVE ParseNumber(_, _)
ParseNumber(s, acc) ==
  IF s /= <<>> /\ Head(s) \in Digits
  THEN ParseNumber(Tail(s), 10 * acc + DigitVal(Head(s)))
  ELSE Parsed(Num(acc), s)

\* JSON values over the characters [ ] , and digits: a number, or an array
\* of values.
RECURSIVE ParseValue(_)
RECURSIVE ParseItems(_, _)
ParseValue(s) ==
  IF s = <<>> THEN ParseFailed
  ELSE IF Head(s) \in Digits THEN ParseNumber(s, 0)
  ELSE IF Head(s) = "["
    THEN IF Tail(s) /= <<>> /\ Head(Tail(s)) = "]"
         THEN Parsed(Arr(<<>>), Tail(Tail(s)))
         ELSE ParseItems(Tail(s), <<>>)
  ELSE ParseFailed

ParseItems(s, acc) ==
  LET r == ParseValue(s) IN
  IF ~r.ok \/ r.rest = <<>> THEN ParseFailed
  ELSE IF Head(r.rest) = "," THEN ParseItems(Tail(r.rest), Append(acc, r.val))
  ELSE IF Head(r.rest) = "]" THEN Parsed(Arr(Append(acc, r.val)), Tail(r.rest))
  ELSE ParseFailed

\* JSON.parse(text): the value, or a thrown SyntaxError (ok = FALSE).
JSONParse(chars) ==
  LET r == ParseValue(chars) IN
  IF r.ok /\ r.rest = <<>> THEN r ELSE ParseFailed

\* --------------------------------------------------------------- state

VARIABLES
  registry,   \* this.registry: the primary registry URL
  mirrors,    \* this.mirrors: the configured mirror list
  retries,    \* this.retries: the configured retry ceiling
  calls,      \* the closure of every send call
  objects,    \* the options objects the calls were given, and the back off
              \* objects their sends made
  pipeline,   \* one registry document on its way through normalize.packages
              \* and Packages.prototype.releases / details, or one profile
              \* on its way through the user normalizer
  client      \* the Registry instances a caller holds, with their lazily
              \* defined endpoints and what the caller did through them

vars == <<registry, mirrors, retries, calls, objects, pipeline, client>>

config == <<registry, mirrors, retries>>

\* Events of a call, in the order they happen: a request issued against a
\* base URL, a request that came back as a failure, a back off delay
\* started (n: the attempt), the caller's callback invoked.
Event(e, url, n) == [e |-> e, url |-> url, n |-> n]

Requested(root) == Event("request", root, 0)

Failed == Event("failure", "", 0)

Delayed(attempt) == Event("backoff", "", attempt)

CalledBack == Event("callback", "", 0)

\* No url (of an Error: no url property).
NoUrl == <<>>

\* No statusCode property on an Error.
NoStatusCode == 0

\* An Error object as send creates it: the message, and neither a url nor a
\* statusCode property.
Error(message) ==
  [message |-> message, url |-> NoUrl, statusCode |-> NoStatusCode]

NoError == Error("")

\* The arguments (err, data) the caller's callback received.
Outcome(err, data) == [err |-> err, data |-> data]

\* A call that has not been issued yet.
\*   pc       idle | request (in flight) | backoff (timer pending) |
\*            done (callback invoked) | thrown (parse threw)
\*   mirrors  the local, de-duplicated array that recursive shifts
\*   options  which object args.options || {} is: the caller's, or the
\*            one send makes
\*   held     the back off object the pending timer of `back` holds
\*   last, lastFailure  the last answer, the last failed answer
\*   outcome  what the callback was given
\*   log      the events so far
NewCall ==
  [ pc |-> "idle", mirrors |-> <<>>, options |-> "none", held |-> "none",
    last |-> NoResponse, lastFailure |-> NoResponse,
    outcome |-> Outcome(NoError, Undefined), log |-> <<>> ]

\* The options object the caller made and hands to send; a call given none
\* gets the {} send makes, named after the call.
Caller == "o"

OptionIds == Calls \cup {Caller}

\* An options object nothing was written on: no `retries` (and never a
\* `retires`), no uri, no backoff. uri and backoff are what send writes on
\* it; backoff names the back off object, the one send made for that call.
NewOptions ==
  [retries |-> Undefined, retires |-> Undefined, uri |-> NoUrl,
   backoff |-> "none"]

\* A back off object: the ceiling and the attempt `back` counts on it.
NewBackoff == [retries |-> Undefined, attempt |-> 0]

\* The objects the calls write on: the options objects, and the back off
\* object the send of each call makes.
NewObjects ==
  [options |-> [o \in OptionIds |-> NewOptions],
   backoffs |-> [c \in Calls |-> NewBackoff]]

\* The `retries` the caller may have put in its options object.
PerCallRetries == Num(5)

\* The mirror lists of the clients whose sends are given the caller's
\* options object: no mirror, or one.
GivenMirrors == {<<>>, <<"http://m1/">>}

\* What the caller is going to hand to the calls as args.options, with the
\* `retries` of its options object: nothing to any call (send(path, fn):
\* each call gets the {} send makes); its object, holding a `retries`, to
\* the first call; its object, holding none, to every call.
Plans ==
  {[given |-> [c \in Calls |-> c], retries |-> Undefined],
   [given |-> [c \in Calls |-> IF c = "a" THEN Caller ELSE c],
    retries |-> PerCallRetries],
   [given |-> [c \in Calls |-> Caller], retries |-> Undefined]}

\* ------------------------------------------------------------ downgrade

\* all.indexOf(item): the first index of item (0 when absent).
IndexOf(all, item) ==
  IF \E i \in 1..Len(all) : all[i] = item
  THEN CHOOSE i \in 1..Len(all) :
         all[i] = item /\ \A j \in 1..(i - 1) : all[j] /= item
  ELSE 0

\* dedupe that lets every entry through.
dedupeKeepsAll(item, i, all) == TRUE

\* dedupe without the indexOf test: falsy entries go, duplicates stay.
dedupeKeepsDuplicates(item, i, all) == Truthy(item)

\* The filter callback of downgrade.
dedupe(item, i, all) ==
  IF ~Truthy(item) THEN FALSE ELSE IndexOf(all, item) = i

\* mirrors.filter(dedupe)
RECURSIVE FilterFrom(_, _)
FilterFrom(all, i) ==
  IF i > Len(all) THEN <<>>
  ELSE IF dedupe(all[i], i, all) THEN <<all[i]>> \o FilterFrom(all, i + 1)
  ELSE FilterFrom(all, i + 1)

Filter(all) == FilterFrom(all, 1)

\* ----------------------------------------------------------- Assignment

\* The options object of call c.
OptionsOf(w, c) == w.objects.options[w.calls[c].options]

\* assign.write(data, { end: true }): the callback receives the data.
Write(w, c, data) ==
  [w EXCEPT !.calls[c].pc = "done",
            !.calls[c].outcome = Outcome(NoError, data),
            !.calls[c].log = Append(@, CalledBack)]

\* assign.destroy(err): the callback receives the error.
Destroy(w, c, err) ==
  [w EXCEPT !.calls[c].pc = "done",
            !.calls[c].outcome = Outcome(err, Undefined),
            !.calls[c].log = Append(@, CalledBack)]

\* ----------------------------------------------------------------- send

\* request with a timeout of its own: the request leaves and a timer is set
\* that starts the request again.
RequestTimesOut(w, c) ==
  [w EXCEPT !.calls[c].pc = "backoff",
            !.calls[c].held = OptionsOf(w, c).backoff,
            !.calls[c].log = Append(@, Requested(OptionsOf(w, c).uri[1]))]

\* request(options, parse): the request leaves for options.uri.
Request(w, c) ==
  [w EXCEPT !.calls[c].pc = "request",
            !.calls[c].log = Append(@, Requested(OptionsOf(w, c).uri[1]))]

\* toTheFuture with its test inverted: gives up after a delay, requests
\* again past the ceiling.
toTheFutureInverted(err, backoff, w, c) ==
  LET t == [w EXCEPT !.objects.options[w.calls[c].options].backoff = backoff]
  IN IF err THEN Request(t, c)
     ELSE Destroy(t, c, Error("Failed to process request"))

\* toTheFuture without its last `return` being the only way out: past the
\* ceiling it destroys the assignment and requests again all the same.
toTheFutureFallsThrough(err, backoff, w, c) ==
  LET t == [w EXCEPT !.objects.options[w.calls[c].options].backoff = backoff]
  IN IF ~err THEN Request(t, c)
     ELSE Request(Destroy(t, c, Error("Failed to process request")), c)

\* toTheFuture(err, backoff): options.backoff = backoff, then the request
\* (for options.uri as it is now) or the terminal error.
toTheFuture(err, backoff, w, c) ==
  LET t == [w EXCEPT !.objects.options[w.calls[c].options].backoff = backoff]
  IN IF ~err THEN Request(t, c)
     ELSE Destroy(t, c, Error("Failed to process request"))

\* attempt > retries: a number is never greater than undefined.
Exceeds(attempt, ceiling) == ceiling.kind = "number" /\ attempt > ceiling.val

\* back(toTheFuture, options.backoff) of the `back` module: it counts the
\* attempt on the object options.backoff is now; past the ceiling the
\* callback gets an error at once, else a timer is set and the callback
\* runs, with that object, when it fires (the action Timer). The length of
\* the delay is not modelled.
Back(w, c) ==
  LET opts == OptionsOf(w, c).backoff
      t == [w EXCEPT !.objects.backoffs[opts].attempt = @ + 1]
  IN IF Exceeds(t.objects.backoffs[opts].attempt,
                t.objects.backoffs[opts].retries)
     THEN toTheFuture(TRUE, opts, t, c)
     ELSE [t EXCEPT !.calls[c].pc = "backoff",
                    !.calls[c].held = opts,
                    !.calls[c].log =
                      Append(@, Delayed(t.objects.backoffs[opts].attempt))]

\* downgraded(err, root, next): options.uri, then the request or the back
\* off.
downgraded(err, root, w, c) ==
  LET t == [w EXCEPT !.objects.options[w.calls[c].options].uri =
                       Resolve(root, Path)]
  IN IF ~err THEN Request(t, c) ELSE Back(t, c)

\* recursive giving up on the pool while its last mirror is still in it.
recursiveLeavesMirror(w, c) ==
  IF Len(w.calls[c].mirrors) > 1
  THEN downgraded(FALSE, Head(w.calls[c].mirrors),
                  [w EXCEPT !.calls[c].mirrors = Tail(@)], c)
  ELSE downgraded(TRUE, registry, w, c)

\* recursive handing over the root it tried last instead of the primary.
recursiveLastRoot(w, c) ==
  IF w.calls[c].mirrors /= <<>>
  THEN downgraded(FALSE, Head(w.calls[c].mirrors),
                  [w EXCEPT !.calls[c].mirrors = Tail(@)], c)
  ELSE downgraded(TRUE,
                  IF OptionsOf(w, c).uri = NoUrl THEN registry
                  ELSE OptionsOf(w, c).uri[1], w, c)

\* recursive(): the next mirror, or the primary with an error.
recursive(w, c) ==
  IF w.calls[c].mirrors /= <<>>
  THEN downgraded(FALSE, Head(w.calls[c].mirrors),
                  [w EXCEPT !.calls[c].mirrors = Tail(@)], c)
  ELSE downgraded(TRUE, registry, w, c)

\* The catch block of parse reads err.message, and err is null there: the
\* TypeError leaves parse, and the request callback, before next() is
\* reached. The call does nothing more; what the process does with the
\* uncaught exception is outside the model.
Throw(w, c) == [w EXCEPT !.calls[c].pc = "thrown"]

\* The answer r has come in and, when it is a failure, is noted.
Noted(w, c, r) ==
  IF r.err \/ ~r.res \/ r.statusCode /= 200
  THEN [w EXCEPT !.calls[c].last = r, !.calls[c].lastFailure = r,
                 !.calls[c].log = Append(@, Failed)]
  ELSE [w EXCEPT !.calls[c].last = r]

\* parse handing the body on as it came, without JSON.parse.
parseKeepsText(w, c, r) ==
  IF r.err \/ ~r.res \/ r.statusCode /= 200
  THEN recursive(Noted(w, c, r), c)
  ELSE Write(Noted(w, c, r), c, r.body)

\* parse handing a failed request to the caller at once.
parseSurfacesFailure(w, c, r) ==
  IF r.err \/ ~r.res \/ r.statusCode /= 200
  THEN Destroy(Noted(w, c, r), c, Error("Received an invalid status code"))
  ELSE IF r.body.kind = "string"
    THEN IF JSONParse(r.body.val).ok
         THEN Write(Noted(w, c, r), c, JSONParse(r.body.val).val)
         ELSE Throw(Noted(w, c, r), c)
    ELSE Write(Noted(w, c, r), c, r.body)

\* parse(err, res, body)
parse(w, c, r) ==
  IF r.err \/ ~r.res \/ r.statusCode /= 200
  THEN recursive(Noted(w, c, r), c)
  ELSE IF r.body.kind = "string"
    THEN IF JSONParse(r.body.val).ok
         THEN Write(Noted(w, c, r), c, JSONParse(r.body.val).val)
         ELSE Throw(Noted(w, c, r), c)
    ELSE Write(Noted(w, c, r), c, r.body)

\* options.backoff as send makes it: the ceiling is read from
\* options.retires when the options have a `retries`, and is the client's
\* otherwise.
ceiling(given) ==
  [NewBackoff EXCEPT
     !.retries = IF given.retries /= Undefined THEN given.retires
                 ELSE Num(retries)]

\* send querying the primary alone, the mirrors left out.
sendPrimaryOnly(w, c, o) ==
  recursive([w EXCEPT
    !.calls[c].mirrors = Filter(<<registry>>),
    !.objects.backoffs[c] = ceiling(w.objects.options[o]),
    !.objects.options[o].backoff = c], c)

\* The body of send on the options object o (args.options || {}): the
\* mirror list, options.backoff, downgrade.
send(w, c, o) ==
  recursive([w EXCEPT
    !.calls[c].mirrors = Filter(<<registry>> \o mirrors),
    !.objects.backoffs[c] = ceiling(w.objects.options[o]),
    !.objects.options[o].backoff = c], c)

\* -------------------------------------------------------------- actions

\* No document has been fetched: the send calls are studied on their own.
NoDocument == [pc |-> "none"]

\* No facade of the client has been touched.
NoClient == [pc |-> "none"]

\* Most attempts counted on a back off object without a ceiling: the code
\* never gives such a call up, it is followed no further.
MaxAttempts == MaxRetries + 4

\* new Registry(options): a primary URL, a mirror list that may repeat
\* entries and hold falsy ones, a retry ceiling of at least 1. The caller
\* has made one options object, with or without a `retries`, and is going
\* to make the calls of a plan.
Init ==
  /\ registry \in {"http://p/"}
  /\ mirrors \in SeqUpTo(MirrorEntries, MaxMirrors)
  /\ retries \in 1..MaxRetries
  /\ \E plan \in Plans :
       /\ plan.given["a"] = Caller => mirrors \in GivenMirrors
       /\ calls = [c \in Calls |-> [NewCall EXCEPT !.options = plan.given[c]]]
       /\ objects = [NewObjects EXCEPT !.options[Caller].retries = plan.retries]
  /\ pipeline = NoDocument
  /\ client = NoClient

\* The calls and the objects as they are, and as a step leaves them.
World == [calls |-> calls, objects |-> objects]

Becomes(w) == calls' = w.calls /\ objects' = w.objects

\* No back off object without a ceiling has counted more than MaxAttempts:
\* under a ceiling the code stops the counter itself.
Bounded(w) ==
  \A c \in Calls :
    w.objects.backoffs[c].retries = Undefined =>
      w.objects.backoffs[c].attempt <= MaxAttempts

\* registry.send(path, fn), or registry.send(path, options, fn) with the
\* caller's options object.
Send(c) ==
  /\ calls[c].pc = "idle"
  /\ Becomes(send(World, c, calls[c].options))
  /\ UNCHANGED <<config, pipeline, client>>

\* A request of call c completes and parse runs.
Parse(c) ==
  /\ calls[c].pc = "request"
  /\ \E r \in Responses :
       /\ Bounded(parse(World, c, r))
       /\ Becomes(parse(World, c, r))
  /\ UNCHANGED <<config, pipeline, client>>

\* The back off timer of call c fires: toTheFuture runs with the object
\* the timer holds.
Timer(c) ==
  /\ calls[c].pc = "backoff"
  /\ Becomes(toTheFuture(FALSE, calls[c].held, World, c))
  /\ UNCHANGED <<config, pipeline, client>>

Next == \E c \in Calls : Send(c) \/ Parse(c) \/ Timer(c)

Spec == Init /\ [][Next]_vars

\* ----------------------------------------------------- reading the log

\* The events of kind e in a log, in order.
Only(log, e) == SelectSeq(log, LAMBDA ev : ev.e = e)

\* The base URLs requested, in order.
UrlsOf(log) ==
  LET reqs == Only(log, "request") IN [i \in 1..Len(reqs) |-> reqs[i].url]

\* The positions of the back off delays in a log.
DelaysIn(log) == {i \in 1..Len(log) : log[i].e = "backoff"}

\* The log up to its first back off delay (all of it without one).
BeforeBackoff(log) ==
  IF DelaysIn(log) = {} THEN log
  ELSE SubSeq(log, 1, (CHOOSE i \in DelaysIn(log) :
                         \A j \in DelaysIn(log) : i <= j) - 1)

IsPrefix(u, v) == Len(u) <= Len(v) /\ \A i \in 1..Len(u) : u[i] = v[i]

\* [ primary ] + mirrors, as configured.
Configured == <<registry>> \o mirrors

\* The first place of u in all.
FirstAt(all, u) ==
  CHOOSE k \in 1..Len(all) : all[k] = u /\ \A j \in 1..(k - 1) : all[j] /= u

\* pull holds each distinct truthy entry of all exactly once, in the order
\* the entries are first seen in all.
IsPullSequence(all, pull) ==
  /\ \A i \in 1..Len(pull) :
       Truthy(pull[i]) /\ \E k \in 1..Len(all) : all[k] = pull[i]
  /\ \A i, j \in 1..Len(pull) : i /= j => pull[i] /= pull[j]
  /\ \A k \in 1..Len(all) :
       Truthy(all[k]) => \E i \in 1..Len(pull) : pull[i] = all[k]
  /\ \A i, j \in 1..Len(pull) :
       i < j => FirstAt(all, pull[i]) < FirstAt(all, pull[j])

\* The truthy entries of all, each taken where it is first seen.
FirstSeen(all) ==
  LET upTo[k \in 0..Len(all)] ==
        IF k = 0 THEN <<>>
        ELSE IF Truthy(all[k]) /\ \A j \in 1..(k - 1) : all[j] /= all[k]
             THEN Append(upTo[k - 1], all[k])
             ELSE upTo[k - 1]
  IN upTo[Len(all)]

\* The pull sequence of the configuration.
ExpectedPull == FirstSeen(Configured)

\* The call has run out of mirrors: it started a back off.
Exhausted(c) == DelaysIn(calls[c].log) /= {}

\* The callback of the call got an error.
TerminalFailure(c) ==
  calls[c].pc = "done" /\ calls[c].outcome.err /= NoError

\* The back off object the send of call c made, and options.uri of call c.
BackoffOf(c) == objects.backoffs[c]

UriOf(c) == objects.options[calls[c].options].uri

\* The calls that were sent with options of their own: the options object
\* of the call was given to no other call and holds no `retries`, so that
\* the ceiling of the call is the client's.
Plain ==
  {c \in Calls :
     /\ calls[c].pc /= "idle"
     /\ objects.options[calls[c].options].retries = Undefined
     /\ \A d \in Calls \ {c} : calls[d].options /= calls[c].options}

\* --------------------------------------------------------------- claims

\* C1: the base URLs a send requests before any back off starts are a prefix
\* of the pull sequence of [primary] + mirrors (each distinct truthy URL
\* once, in first-seen order, the primary first), and all of it once the
\* back off starts.
C1_PullSequence ==
  LET pull == ExpectedPull IN
  /\ IsPullSequence(Configured, pull)
  /\ \A c \in Calls :
       LET pulled == UrlsOf(BeforeBackoff(calls[c].log)) IN
       /\ IsPrefix(pulled, pull)
       /\ pulled /= <<>> => pulled[1] = registry
       /\ Exhausted(c) => IsPullSequence(Configured, pulled)

\* C1 witness: a call went through a mirror list holding a duplicate and a
\* falsy entry and started its back off.
C1_Witness ==
  \E c \in Calls :
    /\ Exhausted(c)
    /\ \E i \in 1..Len(mirrors) : ~Truthy(mirrors[i])
    /\ \E i, j \in 1..Len(Configured) :
         i < j /\ Truthy(Configured[i]) /\ Configured[i] = Configured[j]

\* A transport error, a missing response or a status code other than 200.
IsFailure(r) == r.err \/ ~r.res \/ r.statusCode /= 200

\* The step completes a request of call c.
Answered(c) == calls[c].pc = "request" /\ calls'[c] /= calls[c]

\* C2: when a request of a send fails while a mirror is left, the send
\* issues its next request against the next mirror of the pool and the
\* callback is not invoked.
C2_NextMirror ==
  [][\A c \in Calls :
       (Answered(c) /\ IsFailure(calls'[c].last) /\ calls[c].mirrors /= <<>>)
       => /\ calls'[c].pc = "request"
          /\ calls'[c].log =
               calls[c].log \o <<Failed, Requested(Head(calls[c].mirrors))>>
          /\ calls'[c].mirrors = Tail(calls[c].mirrors)
          /\ calls'[c].outcome = calls[c].outcome
          /\ Only(calls'[c].log, "callback") = <<>>]_vars

\* C2 witness: the primary failed, the first mirror is being requested and
\* the callback has not been invoked.
C2_Witness ==
  \E c \in Calls :
    /\ calls[c].pc = "request"
    /\ Len(calls[c].log) = 3
    /\ calls[c].log[2] = Failed
    /\ calls[c].log[3] = Requested("http://m1/")
    /\ calls[c].mirrors = <<"http://m2/">>

UntilNextDelay(log, i) ==
  LET later == {j \in DelaysIn(log) : j > i}
      stop == IF later = {} THEN Len(log) + 1
              ELSE CHOOSE j \in later : \A k \in later : j <= k
  IN SubSeq(log, i + 1, stop - 1)

Callbacks(c) == Len(Only(calls[c].log, "callback"))

\* The call is waiting for nothing: no request in flight, no timer pending.
Quiet(c) == calls[c].pc \notin {"idle", "request", "backoff"}

\* C5 as claimed, in the form a finite run decides: once every request of
\* a send has completed and every timer has fired, the callback has been
\* invoked (once, with the data or with an error).
C5_OutcomeDelivered ==
  \A c \in Calls : Quiet(c) => calls[c].pc = "done" /\ Callbacks(c) = 1

\* The strings of the bodies that are not JSON.
NotJSON == {<<"[", "1", ",">>, <<"{">>}

\* The last answer of the call is a 200.
Got200(c) ==
  /\ calls[c].pc /= "idle"
  /\ ~calls[c].last.err /\ calls[c].last.res
  /\ calls[c].last.statusCode = 200

\* The last answer of the call is a 200 whose body is a string, not JSON.
GotMalformed(c) ==
  /\ Got200(c)
  /\ calls[c].last.body.kind = "string"
  /\ calls[c].last.body.val \in NotJSON

\* C6 as claimed: a 200 whose body is a string that is not JSON ends the
\* send with an error given to the callback.
C6_ParseErrorTerminal ==
  \A c \in Calls :
    GotMalformed(c) =>
      /\ TerminalFailure(c)
      /\ Callbacks(c) = 1
      /\ calls[c].log[Len(calls[c].log)] = CalledBack

\* What JSON.parse gives for the strings of the bodies that are JSON.
ExpectedJSON(chars) ==
  IF chars = <<"[", "1", ",", "2", "]">> THEN Arr(<<Num(1), Num(2)>>)
  ELSE IF chars = <<"[", "]">> THEN Arr(<<>>)
  ELSE Undefined

\* C7: after a 200 the callback has been given, with no error, the body when
\* it is structured and the value of its JSON when it is a string of JSON;
\* the callback is the last thing the send does (no request, no delay after
\* it).
C7_DataDelivered ==
  \A c \in Calls :
    /\ (Got200(c) /\ ~GotMalformed(c)) =>
         /\ calls[c].pc = "done"
         /\ calls[c].outcome.err = NoError
         /\ calls[c].outcome.data =
              IF calls[c].last.body.kind = "string"
              THEN ExpectedJSON(calls[c].last.body.val)
              ELSE calls[c].last.body
         /\ calls[c].outcome.data /= Undefined
    /\ \A i \in 1..Len(calls[c].log) :
         calls[c].log[i] = CalledBack =>
           i = Len(calls[c].log) /\ calls[c].pc = "done"

\* C7 witness: a string of JSON was delivered parsed, from a mirror.
C7_Witness ==
  \E c \in Calls :
    /\ Got200(c)
    /\ calls[c].last.body = Str(<<"[", "1", ",", "2", "]">>)
    /\ calls[c].outcome = Outcome(NoError, Arr(<<Num(1), Num(2)>>))
    /\ Len(UrlsOf(calls[c].log)) = 2

\* The primary answered 500 and that is the only failure of the call.
PrimaryAnswered500(c) ==
  /\ Len(calls[c].log) >= 2
  /\ calls[c].log[1] = Requested(registry)
  /\ calls[c].log[2] = Failed
  /\ Len(Only(calls[c].log, "failure")) = 1
  /\ calls[c].lastFailure = Response(FALSE, TRUE, 500, Undefined)

\* C8: with a mirror configured, once the primary has answered 500 the send
\* requests the first mirror with no back off, and when the mirror answers
\* 200 the callback gets the mirror's data with no error after exactly the
\* two requests.
C8_OneRotation ==
  LET pull == ExpectedPull IN
  \A c \in Plain :
    (PrimaryAnswered500(c) /\ Len(pull) >= 2) =>
      /\ calls[c].log[3] = Requested(pull[2])
      /\ DelaysIn(calls[c].log) = {}
      /\ BackoffOf(c).attempt = 0
      /\ (Got200(c) /\ ~GotMalformed(c)) =>
           /\ calls[c].pc = "done"
           /\ calls[c].outcome =
                Outcome(NoError,
                        IF calls[c].last.body.kind = "string"
                        THEN ExpectedJSON(calls[c].last.body.val)
                        ELSE calls[c].last.body)
           /\ UrlsOf(calls[c].log) = <<registry, pull[2]>>

\* C8 witness: primary 500, the one mirror 200, the data delivered.
C8_Witness ==
  \E c \in Plain :
    /\ mirrors = <<"http://m1/">>
    /\ PrimaryAnswered500(c)
    /\ calls[c].outcome = Outcome(NoError, EmptyObject)
    /\ calls[c].log = <<Requested(registry), Failed, Requested("http://m1/"),
                        CalledBack>>

\* n times the primary.
Primaries(n) == [i \in 1..n |-> registry]

\* The calls that take the client's ceiling: their options hold no
\* `retries`.
Unceilinged ==
  {c \in Calls :
     /\ calls[c].pc /= "idle"
     /\ objects.options[calls[c].options].retries = Undefined}

\* C9: in every interleaving of the calls each call has its own pool and its
\* own back off state: what is left of its pool is the pull sequence of the
\* configuration less the mirrors the call itself pulled, its requests are
\* those of a call running alone (the pull sequence, then the primary once
\* per delay), its attempt counter counts its own delays against the
\* client's `retries`; and no step changes the client's configuration.
C9_CallsIndependent ==
  /\ [](LET pull == ExpectedPull IN
        \A c \in Unceilinged :
          LET pulled == UrlsOf(BeforeBackoff(calls[c].log))
              delays == Cardinality(DelaysIn(calls[c].log))
          IN /\ Len(pulled) <= Len(pull)
             /\ calls[c].mirrors = SubSeq(pull, Len(pulled) + 1, Len(pull))
             /\ IsPrefix(UrlsOf(calls[c].log),
                         pull \o Primaries(retries))
             /\ BackoffOf(c).retries = Num(retries)
             /\ BackoffOf(c).attempt =
                  delays + (IF TerminalFailure(c) THEN 1 ELSE 0))
  /\ [][config' = config]_vars

\* What send does: the pool is the call's own, and so are the back off
\* state and the requests of a call whose options object no other call was
\* given; no step changes the client's configuration.
OwnPoolSharedOptions ==
  /\ [](LET pull == ExpectedPull IN
        \A c \in Unceilinged :
          LET pulled == UrlsOf(BeforeBackoff(calls[c].log))
              delays == Cardinality(DelaysIn(calls[c].log))
          IN /\ Len(pulled) <= Len(pull)
             /\ calls[c].mirrors = SubSeq(pull, Len(pulled) + 1, Len(pull))
             /\ c \in Plain =>
                  /\ IsPrefix(UrlsOf(calls[c].log),
                              pull \o Primaries(retries))
                  /\ BackoffOf(c).retries = Num(retries)
                  /\ BackoffOf(c).attempt =
                       delays + (IF TerminalFailure(c) THEN 1 ELSE 0))
  /\ [][config' = config]_vars

\* Two calls were given one options object, and one of them has started
\* more delays than the client's `retries`.
SharedBackoff ==
  \E c, d \in Unceilinged :
    /\ c /= d
    /\ calls[c].options = calls[d].options
    /\ Cardinality(DelaysIn(calls[c].log)) > retries

\* Two calls were given one options object, and after a delay one of them
\* requested the mirror the other was at.
SharedUri ==
  \E c, d \in Unceilinged :
    /\ c /= d
    /\ calls[c].options = calls[d].options
    /\ \E i \in DelaysIn(calls[c].log) :
         /\ i < Len(calls[c].log)
         /\ calls[c].log[i + 1].e = "request"
         /\ calls[c].log[i + 1].url /= registry

\* C10 as claimed: the error given to the callback once the retry ceiling is
\* passed carries the URL that was attempted and, when the last failure was
\* an answer with a status code other than 200, that status code.
C10_ErrorContext ==
  \A c \in Plain :
    (TerminalFailure(c)
       /\ Exceeds(BackoffOf(c).attempt, BackoffOf(c).retries))
    => /\ calls[c].outcome.err.url = UriOf(c)
       /\ (calls[c].lastFailure.res /\ calls[c].lastFailure.statusCode /= 200)
            => calls[c].outcome.err.statusCode =
                 calls[c].lastFailure.statusCode

\* ====================================================================
\* The package path: normalize.packages of src/normalize/users.js and
\* Packages.prototype.releases / details of src/endpoints/packages.js.
\* ====================================================================

\* ---------------------------------------------------- document values

Null == [kind |-> "null", val |-> <<>>]

\* A string of a registry document, held as one atom: the pipeline reads
\* its characters only through semver and Date, modelled as tables below.
Text(s) == [kind |-> "string", val |-> s]

\* A reference to the object at address a of the heap.
Ref(a) == [kind |-> "ref", val |-> a]

\* A Date, held as the instant toISOString prints; an invalid one.
Date(iso) == [kind |-> "date", val |-> iso]

InvalidDate == Date("Invalid Date")

\* An object of a JSON text that is not yet on the heap: its members
\* <<key, value>> in the order of the text.
Literal(pairs) == [kind |-> "literal", val |-> pairs]

\* !!value
ToBoolean(v) ==
  CASE v.kind \in {"undefined", "null"} -> FALSE
    [] v.kind = "number" -> v.val # 0
    [] v.kind = "string" -> v.val # ""
    [] OTHER -> TRUE

\* a || b
Or(a, b) == IF ToBoolean(a) THEN a ELSE b

\* typeof value
typeof(v) ==
  CASE v.kind \in {"undefined", "number", "string", "boolean"} -> v.kind
    [] OTHER -> "object"

\* type(of): the class name of Object.prototype.toString, in lower case.
type(of) == IF of.kind = "ref" THEN "object" ELSE of.kind

\* The string a value is turned into when it is used as a property key.
KeyOf(v) ==
  CASE v.kind = "string" -> v.val
    [] v.kind \in {"undefined", "null"} -> v.kind
    [] v.kind = "date" -> v.val
    [] OTHER -> "[object Object]"

\* ----------------------------------------------------------- the heap

\* An object: its own keys in insertion order and the value at each key.
\* (No key of the documents is an integer index, which JavaScript would
\* order first.)
EmptyCell == [keys |-> <<>>, at |-> <<>>]

PutCell(cell, k, x) ==
  [keys |-> IF k \in DOMAIN cell.at THEN cell.keys ELSE Append(cell.keys, k),
   at |-> (k :> x) @@ cell.at]

DeleteCell(cell, k) ==
  [keys |-> SelectSeq(cell.keys, LAMBDA j : j # k),
   at |-> [j \in DOMAIN cell.at \ {k} |-> cell.at[j]]]

\* key in value, for a value that is not null or undefined
In(h, k, v) == v.kind = "ref" /\ k \in DOMAIN h[v.val].at

\* value[key], for a value that is not null or undefined: a primitive
\* and an array have none of the keys of the documents.
Get(h, v, k) == IF In(h, k, v) THEN h[v.val].at[k] ELSE Undefined

\* object[key] = x
Put(h, v, k, x) == [h EXCEPT ![v.val] = PutCell(@, k, x)]

\* delete object[key]
Delete(h, v, k) == [h EXCEPT ![v.val] = DeleteCell(@, k)]

\* {}: the heap with one more, empty, object; its reference is Fresh(h).
New(h) == Append(h, EmptyCell)

Fresh(h) == Ref(Len(h) + 1)

\* Object.keys(value): the own keys of an object, none of a number.
ObjectKeys(h, v) == IF v.kind = "ref" THEN h[v.val].keys ELSE <<>>

\* TLC evaluates the argument of an operator when it is first read. A loop
\* over the statements of the code reads its heap before every step, so
\* that the steps are evaluated one after the other, in the code's order.
Evaluated(h) == h = h

\* The objects of a parsed JSON text are built members first.
RECURSIVE Load(_, _), LoadMembers(_, _, _, _)
Load(h, v) ==
  IF v.kind = "literal"
  THEN LET r == LoadMembers(h, v.val, 1, EmptyCell) IN
       [heap |-> Append(r.heap, r.cell), value |-> Fresh(r.heap)]
  ELSE [heap |-> h, value |-> v]

LoadMembers(h, pairs, i, cell) ==
  IF i > Len(pairs) \/ ~Evaluated(<<h, cell>>) THEN [heap |-> h, cell |-> cell]
  ELSE LET r == Load(h, pairs[i][2]) IN
       LoadMembers(r.heap, pairs, i + 1, PutCell(cell, pairs[i][1], r.value))

\* The value a reference stands for, as deep equality sees it: an object
\* is the mapping of its keys, whatever their order.
RECURSIVE Snapshot(_, _)
Snapshot(h, v) ==
  CASE v.kind = "ref" ->
         [kind |-> "object",
          val |-> [k \in DOMAIN h[v.val].at |-> Snapshot(h, h[v.val].at[k])]]
    [] v.kind = "array" ->
         Arr([i \in DOMAIN v.val |-> Snapshot(h, v.val[i])])
    [] OTHER -> v

\* ----------------------------------------------------- semver and Date

\* semver's reading of a version string, as <<major, minor, patch>>; <<>>
\* for a string that is no version. The table holds the keys that the
\* documents give to their versions.
SemverParse(version) ==
  CASE version = "1.0.0" -> <<1, 0, 0>>
    [] version = "2.0.0" -> <<2, 0, 0>>
    [] version = "10.0.0" -> <<10, 0, 0>>
    [] OTHER -> <<>>

\* semver.valid(version, true)
valid(version) == SemverParse(version) # <<>>

\* semver.gt(a, b), for two valid versions
gt(a, b) ==
  LET x == SemverParse(a)
      y == SemverParse(b)
  IN \/ x[1] > y[1]
     \/ x[1] = y[1] /\ x[2] > y[2]
     \/ x[1] = y[1] /\ x[2] = y[2] /\ x[3] > y[3]

\* clean(version) of the filter: is the key a valid version
clean(version) == valid(version)

\* sort(a, b) of the sort: a negative result, a goes before b
sort(a, b) == gt(a, b)

\* array.sort(sort), for an array of distinct valid versions: each version
\* is placed before the first one it is greater than.
RECURSIVE Insert(_, _)
Insert(a, array) ==
  IF array = <<>> THEN <<a>>
  ELSE IF sort(a, Head(array)) THEN <<a>> \o array
  ELSE <<Head(array)>> \o Insert(a, Tail(array))

RECURSIVE Sorted(_)
Sorted(array) ==
  IF array = <<>> THEN <<>>
  ELSE Insert(Head(array), Sorted(Tail(array)))

\* The date that the registry got spec'd.
creation == "2010-01-14T01:41:08-08:00"

\* The instant Date reads from a string, as toISOString prints it. The
\* table holds the date strings of the documents and of the code.
DateParse(string) ==
  CASE string = creation -> "2010-01-14T09:41:08.000Z"
    [] string = "2020-01-01T00:00:00Z" -> "2020-01-01T00:00:00.000Z"
    [] string = "2021-01-01T00:00:00+01:00" -> "2020-12-31T23:00:00.000Z"
    [] string = "1970-01-01T00:00:00.000Z" -> "1970-01-01T00:00:00.000Z"
    [] OTHER -> "Invalid Date"

\* new Date(value). No document holds a number or an array where a date
\* is read.
NewDate(v) ==
  CASE v.kind = "string" -> Date(DateParse(v.val))
    [] v.kind = "date" -> v
    [] v.kind = "null" -> Date("1970-01-01T00:00:00.000Z")
    [] OTHER -> InvalidDate

\* -------------------------------------------------- normalize.packages

\* What a call gives back: a value, or an exception thrown out of it.
Returned(h, value) == [threw |-> FALSE, heap |-> h, value |-> value]

Thrown(h) == [threw |-> TRUE, heap |-> h, value |-> Undefined]

\* The fields given a default, each with the literal of its default.
Transforms ==
  << [key |-> "bundledDependencies", value |-> Arr(<<>>)],
     [key |-> "dependencies", value |-> Literal(<<>>)],
     [key |-> "description", value |-> Text("")],
     [key |-> "devDependencies", value |-> Literal(<<>>)],
     [key |-> "engines", value |-> Literal(<<>>)],
     [key |-> "keywords", value |-> Arr(<<>>)],
     [key |-> "maintainers", value |-> Arr(<<>>)],
     [key |-> "optionalDependencies", value |-> Literal(<<>>)],
     [key |-> "peerDependencies", value |-> Literal(<<>>)],
     [key |-> "readme", value |-> Text("")],
     [key |-> "readmeFilename", value |-> Text("")],
     [key |-> "scripts", value |-> Literal(<<>>)],
     [key |-> "time", value |-> Literal(<<>>)],
     [key |-> "version", value |-> Text("")],
     [key |-> "versions", value |-> Literal(<<>>)] >>

\* The first statement of each: data[key] = data[key] || latest[key] ||
\* transform.value, with the default `value` on the heap.
assigned(value, h, data, latest, key) ==
  CASE Evaluated(value) ->
      [heap |-> Put(value.heap, data, key,
                    Or(Or(Get(h, data, key), Get(h, latest, key)), value.value)),
       value |-> value.value]

\* The second: a value of another type than the default is replaced.
checked(r, data, key) ==
  CASE Evaluated(r) ->
      IF type(Get(r.heap, data, key)) # type(r.value)
      THEN Put(r.heap, data, key, r.value)
      ELSE r.heap

\* each(transform) without its second statement.
eachUnchecked(h, data, latest, transform) ==
  assigned(Load(h, transform.value), h, data, latest, transform.key).heap

\* each(transform): the heap after the field is given its value.
each(h, data, latest, transform) ==
  checked(assigned(Load(h, transform.value), h, data, latest, transform.key),
          data, transform.key)

\* [...].forEach(each), from the i-th transform on
RECURSIVE forEach(_, _, _, _)
forEach(h, data, latest, i) ==
  IF i > Len(Transforms) \/ ~Evaluated(h) THEN h
  ELSE forEach(each(h, data, latest, Transforms[i]), data, latest, i + 1)

\* normalize(version) over Object.keys(data.time), from the i-th key on
RECURSIVE normalize(_, _, _, _)
normalize(h, time, keys, i) ==
  IF i > Len(keys) \/ ~Evaluated(h) THEN h
  ELSE normalize(Put(h, time, keys[i], NewDate(Get(h, time, keys[i]))),
                 time, keys, i + 1)

\* The strings of an array of keys.
Texts(keys) == Arr([i \in DOMAIN keys |-> Text(keys[i])])

\* value || {}: the value, or a new empty object when it is falsy.
OrNew(h, value) ==
  IF ToBoolean(value) THEN [heap |-> h, value |-> value]
  ELSE [heap |-> New(h), value |-> Fresh(h)]

\* Lines 200-201: the aliases mtime and time.
aliases(h, data) ==
  CASE Evaluated(h) ->
      Put(Put(h, data, "modified",
              Or(Get(h, data, "modified"), Get(h, data, "mtime"))),
          data, "created", Or(Get(h, data, "created"), Get(h, data, "time")))

\* Lines 204 and 205: data.time[k], when it is there and data[k] is not.
nested(h, data, k) ==
  CASE Evaluated(h) ->
      IF /\ ToBoolean(Get(h, Get(h, data, "time"), k))
         /\ ~ToBoolean(Get(h, data, k))
      THEN Put(h, data, k, Get(h, Get(h, data, "time"), k))
      ELSE h

\* Lines 208 and 209: data[k] = data[k] || creation
orCreation(h, data, k) ==
  CASE Evaluated(h) ->
      Put(h, data, k, Or(Get(h, data, k), Text(creation)))

\* Lines 215 and 216: a string becomes a Date.
converted(h, data, k) ==
  CASE Evaluated(h) ->
      IF typeof(Get(h, data, k)) = "string"
      THEN Put(h, data, k, NewDate(Get(h, data, k)))
      ELSE h

\* Lines 199-216 of packages: modified and created. data.time is an
\* object when they run, each has seen to it.
dates(h, data) ==
  converted(
    converted(
      IF \/ ~ToBoolean(Get(h, data, "modified"))
         \/ ~ToBoolean(Get(h, data, "created"))
      THEN orCreation(orCreation(nested(nested(aliases(h, data), data, "modified"),
                                  data, "created"),
                           data, "modified"),
                   data, "created")
      ELSE h,
      data, "modified"),
    data, "created")

\* Line 227: data.starred
starred(h, data, latest) ==
  CASE Evaluated(h) ->
      LET users == OrNew(h, Or(Get(h, data, "users"), Get(h, latest, "users")))
      IN Put(users.heap, data, "starred",
             Texts(ObjectKeys(users.heap, users.value)))

\* Lines 233-235: delete data[gone] when data[k] is truthy, or is not.
dropped(h, data, gone, k, truthy) ==
  CASE Evaluated(h) ->
      IF ToBoolean(Get(h, data, k)) = truthy THEN Delete(h, data, gone) ELSE h

\* Lines 227-235 of packages: starred, and the fields that are dropped.
cleanup(h, data, latest) ==
  dropped(
    dropped(
      dropped(starred(h, data, latest),
              data, "readmeFile", "readmeFilename", FALSE),
      data, "_attachments", "_attachments", TRUE),
    data, "readme", "readme", FALSE)

\* Line 149: dist-tags that is no object becomes {}.
distTags(h, data) ==
  IF typeof(Get(h, data, "dist-tags")) # "object"
  THEN Put(New(h), data, "dist-tags", Fresh(h))
  ELSE h

\* Line 150, for dist-tags that is not null: latest is releases[0].
latestTag(h, data, releases) ==
  CASE Evaluated(h) ->
      IF In(h, "latest", Get(h, data, "dist-tags")) THEN h
      ELSE Put(h, Get(h, data, "dist-tags"), "latest",
               IF releases = <<>> THEN Undefined ELSE Text(releases[1]))

\* Line 152: latest, with the heap that holds it.
latestOf(h, data) ==
  CASE Evaluated(h) ->
      OrNew(h, Get(h, Get(h, data, "versions"),
                   KeyOf(Get(h, Get(h, data, "dist-tags"), "latest"))))

\* Line 185 asking the latest version before the document.
namedLatestFirst(h, data, latest, releases) ==
  CASE Evaluated(h) ->
      LET name == Or(Or(Or(Get(h, latest, "name"), Get(h, latest, "_id")),
                        Get(h, data, "name")),
                     Get(h, data, "_id"))
      IN Put(Put(Put(Put(h, data, "name", name), data, "_id", name),
                 data, "releases", Texts(releases)),
             data, "latest", latest)

\* Lines 185-187: name and _id, releases, latest.
named(h, data, latest, releases) ==
  CASE Evaluated(h) ->
      LET name == Or(Or(Or(Get(h, data, "name"), Get(h, data, "_id")),
                        Get(h, latest, "name")),
                     Get(h, latest, "_id"))
      IN Put(Put(Put(Put(h, data, "name", name), data, "_id", name),
                 data, "releases", Texts(releases)),
             data, "latest", latest)

\* string.split(/[\s|,]{1,}/) for the strings the documents hold: the
\* parts between runs of white space, bars and commas.
split(string) ==
  CASE string = "a,b" -> <<"a", "b">>
    [] string = "" -> <<"">>
    [] OTHER -> <<string>>

\* Lines 192-193: split gives a new array that is not kept, so keywords
\* that is no array is deleted.
keywords(h, data) ==
  CASE Evaluated(h) ->
      IF type(Get(h, data, "keywords")) # "array"
      THEN Delete(h, data, "keywords")
      ELSE h

\* Lines 218-220: every entry of data.time becomes a Date.
timeDates(h, data) ==
  CASE Evaluated(h) ->
      normalize(h, Get(h, data, "time"), ObjectKeys(h, Get(h, data, "time")), 1)

\* Lines 154-240, with `latest` and the heap it is on.
defaulted(l, data, releases) ==
  CASE Evaluated(l) ->
      Returned(
        cleanup(
          timeDates(
            dates(
              keywords(
                named(forEach(l.heap, data, l.value, 1), data, l.value, releases),
                data),
              data),
            data),
          data, l.value),
        data)

\* Lines 150-240: `'latest' in null` throws a TypeError.
fromTags(h, data, releases) ==
  CASE Evaluated(h) ->
      IF Get(h, data, "dist-tags").kind = "null" THEN Thrown(h)
      ELSE defaulted(latestOf(latestTag(h, data, releases), data),
                     data, releases)

\* packages(data): the document is changed in place and returned; the
\* result of releases.filter(clean).sort(sort) is not kept, so `releases`
\* stays the keys as Object.keys gave them.
packages(h, data) ==
  IF ~ToBoolean(data) \/ type(data) # "object"
  THEN Returned(New(h), Fresh(h))
  ELSE fromTags(distTags(h, data), data,
               ObjectKeys(h, Or(Get(h, data, "versions"),
                                Get(h, data, "times"))))

\* ------------------------------------------------ registry documents

\* Most versions a document lists.
MaxVersions == 2

True == [kind |-> "boolean", val |-> TRUE]

\* One member of an object literal; no member.
Member(k, v) == << <<k, v>> >>

Absent == <<>>

\* The keys the documents give to their versions; "next" is no version.
VersionKeys == {"1.0.0", "2.0.0", "10.0.0", "next"}

\* The version object a document holds under each key. 1.0.0 is complete;
\* 2.0.0 has fields of the wrong type and a time map and users of its own;
\* 10.0.0 has no dist; next has an empty dist and no version.
Release(version) ==
  CASE version = "1.0.0" ->
         Literal(<< <<"name", Text("x")>>,
                    <<"version", Text("1.0.0")>>,
                    <<"description", Text("one")>>,
                    <<"dependencies", Literal(Member("a", Text("1.0.0")))>>,
                    <<"dist", Literal(Member("shasum", Text("s1")))>>,
                    <<"license", Text("MIT")>> >>)
    [] version = "2.0.0" ->
         Literal(<< <<"_id", Text("x@2.0.0")>>,
                    <<"version", Text("2.0.0")>>,
                    <<"description", Num(2)>>,
                    <<"keywords", Text("a,b")>>,
                    <<"time", Literal(Member("2.0.0",
                                 Text("2021-01-01T00:00:00+01:00")))>>,
                    <<"users", Literal(Member("bob", True))>>,
                    <<"dist", Literal(Member("shasum", Text("s2")))>>,
                    <<"licenses", Arr(<<Text("BSD")>>)>> >>)
    [] version = "10.0.0" -> Literal(Member("version", Text("10.0.0")))
    [] OTHER ->
         Literal(<< <<"devDependencies", Literal(Member("b", Text("2.0.0")))>>,
                    <<"dist", Literal(<<>>)>> >>)

\* Every sequence of at most n distinct elements of S.
Distinct(S, n) ==
  {s \in SeqUpTo(S, n) : \A i, j \in DOMAIN s : i # j => s[i] # s[j]}

\* The `versions` of a document: none, a number, or up to MaxVersions
\* version objects in any order.
VersionsOptions ==
  {Absent, Member("versions", Num(5))}
    \cup {Member("versions",
                 Literal([i \in DOMAIN keys |-> <<keys[i], Release(keys[i])>>])) :
            keys \in Distinct(VersionKeys, MaxVersions)}

TimesOptions ==
  {Absent,
   Member("times", Literal(Member("1.0.0", Text("2020-01-01T00:00:00Z"))))}

\* The `dist-tags` of a document: none, null, latest, another tag, a tag
\* that is named like a version.
TagsOptions ==
  {Absent,
   Member("dist-tags", Null),
   Member("dist-tags", Literal(Member("latest", Text("1.0.0")))),
   Member("dist-tags", Literal(Member("beta", Text("2.0.0")))),
   Member("dist-tags", Literal(Member("1.0.0", Text("2.0.0"))))}

TimeOptions ==
  {Absent,
   Member("time", Text("never")),
   Member("time",
          Literal(<< <<"modified", Text("2021-01-01T00:00:00+01:00")>>,
                     <<"created", Text("2020-01-01T00:00:00Z")>>,
                     <<"1.0.0", Text("2020-01-01T00:00:00Z")>>,
                     <<"next", Text("soon")>> >>))}

\* Explicit stamps: none, modified and created, or the alias mtime.
StampOptions ==
  {Absent,
   << <<"modified", Text("2020-01-01T00:00:00Z")>>,
      <<"created", Text("2020-01-01T00:00:00Z")>> >>,
   Member("mtime", Text("2021-01-01T00:00:00+01:00"))}

\* Fields that take a default: none, of the right type, of another type.
FieldOptions ==
  {Absent,
   << <<"description", Text("text")>>,
      <<"keywords", Arr(<<Text("k")>>)>>,
      <<"readme", Text("read me")>>,
      <<"users", Literal(Member("alice", True))>> >>,
   << <<"description", Num(7)>>,
      <<"keywords", Text("a,b")>>,
      <<"dependencies", Arr(<<>>)>>,
      <<"maintainers", Null>>,
      <<"_attachments", Literal(<<>>)>> >>}

\* The identity of a document: none, a name, an _id, both, an empty name
\* with an _id, a name that is a number.
NameOptions ==
  {Absent,
   Member("name", Text("x")),
   Member("_id", Text("y")),
   << <<"name", Text("x")>>, <<"_id", Text("y")>> >>,
   << <<"name", Text("")>>, <<"_id", Text("y")>> >>,
   Member("name", Num(7))}

\* A body that is a JSON object, by its members.
RawDocument(name, versions, times, tags, time, stamps, fields) ==
  Literal(name \o versions \o times \o tags \o time \o stamps \o fields)

\* The bodies that are no JSON object, and no body at all.
NoObjects == {Null, Undefined, Arr(<<>>), Text("string")}

\* ------------------------------------------------- the package path

\* ------------------------------------------- Packages.prototype.releases

\* JSON.stringify(value), as the text JSON.parse reads: a member that is
\* undefined is left out, an undefined item is null, a Date is the string
\* of toISOString and null when it is invalid.
DefinedKeys(cell) ==
  SelectSeq(cell.keys, LAMBDA k : cell.at[k].kind # "undefined")

RECURSIVE stringify(_, _)
stringify(h, v) ==
  CASE v.kind = "ref" ->
         LET keys == DefinedKeys(h[v.val]) IN
         Literal([i \in DOMAIN keys |->
                    <<keys[i], stringify(h, h[v.val].at[keys[i]])>>])
    [] v.kind = "array" ->
         Arr([i \in DOMAIN v.val |->
                IF v.val[i].kind = "undefined" THEN Null
                ELSE stringify(h, v.val[i])])
    [] v.kind = "date" -> IF v = InvalidDate THEN Null ELSE Text(v.val)
    [] OTHER -> v

\* JSON.parse(JSON.stringify(value)): stringify gives undefined for
\* undefined, which is no JSON text, so that parse throws.
Clone(h, v) ==
  IF v.kind = "undefined" THEN Thrown(h)
  ELSE LET r == Load(h, stringify(h, v)) IN Returned(r.heap, r.value)

\* What emit has done: the rows it added, whether it threw, and whether
\* it returned false.
Emitted(h, rows, threw, returned) ==
  [heap |-> h, rows |-> rows, threw |-> threw, returned |-> returned]

\* A property is set on a value: a TypeError in strict mode when the value
\* is not an object.
Settable(v) == v.kind = "ref"

\* addmore, for the keys of versions from the i-th on.
RECURSIVE addmore(_, _, _, _, _)
addmore(h, data, keys, i, rows) ==
  IF i > Len(keys) \/ ~Evaluated(<<h, rows>>)
  THEN Emitted(h, rows, FALSE, [kind |-> "boolean", val |-> FALSE])
  ELSE LET release == Get(h, Get(h, data, "versions"), keys[i])
           date == Get(h, Get(h, data, "time"), keys[i])
       IN IF ~Settable(release) THEN Emitted(h, rows, TRUE, Undefined)
          ELSE addmore(Put(h, release, "date", date), data, keys, i + 1,
                       Append(rows, release))

\* The clone of a version gets its date and its tag: the row it makes,
\* and a TypeError when the clone is not an object.
labelled(release, date, key) ==
  CASE Evaluated(release) ->
      IF release.threw \/ ~Settable(release.value) THEN Thrown(release.heap)
      ELSE Returned(Put(Put(release.heap, release.value, "date", date),
                        release.value, "tag", Text(key)),
                    release.value)

\* function (key) over the keys of dist-tags: the row of one key.
aliased(h, data, version, key) ==
  labelled(Clone(h, Get(h, Get(h, data, "versions"), KeyOf(version))),
           Get(h, Get(h, data, "time"), KeyOf(version)), key)

\* The same over the keys from the i-th on.
RECURSIVE tagged(_, _, _, _, _)
added(row, data, keys, i, rows) ==
  CASE Evaluated(row) ->
      IF row.threw THEN Emitted(row.heap, rows, TRUE, Undefined)
      ELSE tagged(row.heap, data, keys, i + 1, Append(rows, row.value))

tagged(h, data, keys, i, rows) ==
  IF i > Len(keys) \/ ~Evaluated(<<h, rows>>)
  THEN Emitted(h, rows, FALSE, [kind |-> "boolean", val |-> FALSE])
  ELSE added(aliased(h, data, Get(h, Get(h, data, "dist-tags"), keys[i]),
                     keys[i]),
             data, keys, i, rows)

\* The second half of emit, after addmore has run over the versions.
alsoTags(e, data) ==
  CASE Evaluated(e) ->
      IF e.threw \/ ~In(e.heap, "dist-tags", data) THEN e
      ELSE tagged(e.heap, data, ObjectKeys(e.heap, Get(e.heap, data, "dist-tags")),
                  1, e.rows)

\* emit(data, add): the rows added, in order; it returns false, and
\* undefined when the package has no versions.
emit(h, data) ==
  IF ~ToBoolean(Get(h, data, "versions"))
  THEN Emitted(h, <<>>, FALSE, Undefined)
  ELSE alsoTags(addmore(h, data, ObjectKeys(h, Get(h, data, "versions")),
                        1, <<>>),
                data)

\* The date of a release that has none.
epoch == "1970-01-01T00:00:00.000Z"

\* The object map returns, on the heap g, with the mappings it has for
\* the three kinds of dependencies.
Record(g, release, dependencies, devDependencies, peerDependencies, date, license) ==
  Returned(
    Append(g,
      [keys |-> <<"tag", "name", "version", "shasum", "dependencies",
                  "license", "devDependencies", "peerDependencies", "date">>,
       at |-> [tag |-> Or(Get(g, release, "tag"), Text("")),
               name |-> Or(Get(g, release, "name"), Text("")),
               version |-> Or(Get(g, release, "version"), Text("0.0.0")),
               shasum |-> Or(Get(g, Get(g, release, "dist"), "shasum"),
                             Text("")),
               dependencies |-> dependencies,
               license |-> license,
               devDependencies |-> devDependencies,
               peerDependencies |-> peerDependencies,
               date |-> date]]),
    Fresh(g))

\* release[k] || {} for the three kinds of dependencies, one after the
\* other, and then the record.
Built(h, release, date, license) ==
  LET dependencies == OrNew(h, Get(h, release, "dependencies"))
      devDependencies ==
        OrNew(dependencies.heap, Get(h, release, "devDependencies"))
      peerDependencies ==
        OrNew(devDependencies.heap, Get(h, release, "peerDependencies"))
  IN Record(peerDependencies.heap, release, dependencies.value,
            devDependencies.value, peerDependencies.value, date, license)

mapCreation(h, release) ==
  IF Get(h, release, "dist").kind \in {"undefined", "null"} THEN Thrown(h)
  ELSE Built(h, release,
             Or(Get(h, release, "date"), Text(creation)),
             Or(Get(h, release, "license"), Get(h, release, "licenses")))

\* map(release): release.dist.shasum throws when the release has no dist.
map(h, release) ==
  IF Get(h, release, "dist").kind \in {"undefined", "null"} THEN Thrown(h)
  ELSE Built(h, release,
             Or(Get(h, release, "date"), Text(epoch)),
             Or(Get(h, release, "license"), Get(h, release, "licenses")))

\* reduce leaving alone a key the mapping already has.
reduceKeepsFirst(h, memo, release) ==
  IF In(h, KeyOf(Or(Get(h, release, "tag"), Get(h, release, "version"))), memo)
  THEN h
  ELSE Put(h, memo,
           KeyOf(Or(Get(h, release, "tag"), Get(h, release, "version"))),
           release)

\* reduce(memo, release)
reduce(h, memo, release) ==
  Put(h, memo,
      KeyOf(Or(Get(h, release, "tag"), Get(h, release, "version"))),
      release)

\* What the operation has done: the rows that went through map, the
\* records map made of them, and the mapping reduce has filled.
Flowed(h, rows, records, mapping, threw) ==
  [heap |-> h, rows |-> rows, records |-> records, mapping |-> mapping,
   threw |-> threw]

\* Every row goes through map and reduce, from the i-th on.
RECURSIVE flow(_, _, _, _, _)
reduced(record, rows, i, memo, records) ==
  CASE Evaluated(record) ->
      IF record.threw THEN Flowed(record.heap, rows, records, memo, TRUE)
      ELSE flow(reduce(record.heap, memo, record.value), rows, i + 1, memo,
                Append(records, record.value))

flow(h, rows, i, memo, records) ==
  IF i > Len(rows) \/ ~Evaluated(<<h, records>>)
  THEN Flowed(h, rows, records, memo, FALSE)
  ELSE reduced(map(h, rows[i]), rows, i, memo, records)

\* The stream after emit. A row is dropped when emit returns false; kept
\* says whether the stream keeps a row for which emit returned undefined.
emits(e, data, kept) ==
  CASE Evaluated(e) ->
      IF e.threw THEN Flowed(e.heap, e.rows, <<>>, Undefined, TRUE)
      ELSE flow(New(e.heap),
                IF e.returned.kind = "undefined" /\ kept
                THEN <<data>> \o e.rows ELSE e.rows,
                1, Fresh(e.heap), <<>>)

\* releases, from the normalized package on.
releases(h, data, kept) == emits(emit(h, data), data, kept)

\* ------------------------------------------- Packages.prototype.details

\* The descriptor the license resolver answers with.
Licenses == Arr(<<Text("MIT")>>)

\* parsed(err, licenses)
parsed(h, data, resolution) ==
  IF resolution = "fails" THEN Thrown(h)
  ELSE Returned(Put(h, data, "licenses", Licenses), data)


\* What the external license resolver answers when it is asked.
Resolutions == {"fails", "resolves"}

\* A body has been received and parsed; nothing has been done to it yet.
\* raw: the document as it was received; once: the document as the first
\* normalization left it; resolver: what the license resolver has
\* answered, idle while it has not been asked, asked while it has not
\* answered; rows, records, mapping: the rows emit added, the records map
\* made and the mapping delivered, with the heap as it was delivered; err:
\* an error went to the callback.
Fetched(document) ==
  LET raw == Load(<<>>, document) IN
  [pc |-> "fetched", heap |-> raw.heap, data |-> raw.value,
   raw |-> raw, once |-> raw, returned |-> Undefined, threw |-> FALSE,
   resolver |-> "idle", rows |-> <<>>, records |-> <<>>,
   mapping |-> Undefined, delivered |-> <<>>, err |-> FALSE]

\* The document after packages has returned r, or thrown.
normalized(p, r) ==
  CASE Evaluated(r) ->
      [p EXCEPT
         !.pc = IF r.threw THEN "thrown"
                ELSE IF p.pc = "fetched" THEN "normalized"
                ELSE "normalized twice",
         !.heap = r.heap,
         !.returned = r.value,
         !.threw = r.threw,
         !.once = IF p.pc = "fetched"
                  THEN [heap |-> r.heap, value |-> r.value] ELSE @]

\* normalize.packages is applied to the document, and once more to what
\* it returned.
Normalize ==
  /\ pipeline.pc \in {"fetched", "normalized"}
  /\ pipeline' =
       normalized(pipeline,
                  packages(pipeline.heap,
                           IF pipeline.pc = "fetched" THEN pipeline.data
                           ELSE pipeline.returned))
  /\ UNCHANGED <<config, calls, objects, client>>

InitPackages ==
  /\ registry = "http://p/"
  /\ mirrors = <<>>
  /\ retries = 1
  /\ calls = [c \in Calls |-> NewCall]
  /\ objects = NewObjects
  /\ \/ \E name \in NameOptions, versions \in VersionsOptions,
            times \in TimesOptions, tags \in TagsOptions,
            time \in TimeOptions, stamps \in StampOptions,
            fields \in FieldOptions :
          pipeline = Fetched(RawDocument(name, versions, times, tags, time,
                                         stamps, fields))
     \/ \E document \in NoObjects : pipeline = Fetched(document)
  /\ client = NoClient

\* The document after releases has done r.
released(p, r) ==
  CASE Evaluated(r) ->
      [p EXCEPT
         !.pc = IF r.threw THEN "releases thrown" ELSE "released",
         !.heap = r.heap,
         !.threw = r.threw,
         !.rows = r.rows,
         !.records = r.records,
         !.mapping = r.mapping,
         !.delivered = IF r.threw THEN @ ELSE r.heap]

\* releases(name, fn) on the package that get has normalized.
Releases ==
  /\ pipeline.pc = "normalized"
  /\ \E kept \in BOOLEAN :
       pipeline' =
         released(pipeline,
                  releases(pipeline.heap, pipeline.returned, kept))
  /\ UNCHANGED <<config, calls, objects, client>>

\* The document once map has handed it to the license resolver and
\* returned: the resolver has been asked and has not answered.
asked(p) == [p EXCEPT !.pc = "asked", !.resolver = "asked"]

\* The document after the license resolver has answered r.
detailed(p, r, resolution) ==
  CASE Evaluated(r) ->
      [p EXCEPT !.pc = "detailed", !.heap = r.heap, !.resolver = resolution,
                !.err = r.threw]

\* details(name, fn) on the package that get has normalized: map asks the
\* license resolver and returns; the document is left as it is.
Details ==
  /\ pipeline.pc = "normalized"
  /\ pipeline' = asked(pipeline)
  /\ UNCHANGED <<config, calls, objects, client>>

\* The license resolver calls back, in a later turn: it answers, or fails,
\* and parsed stores the answer and goes on.
Licensed ==
  /\ pipeline.pc = "asked"
  /\ \E resolution \in Resolutions :
       pipeline' =
         detailed(pipeline,
                  parsed(pipeline.heap, pipeline.returned, resolution),
                  resolution)
  /\ UNCHANGED <<config, calls, objects, client>>

\* The fields of a delivered record that the caller changes: one of the
\* record itself, one inside its dependencies.
Changes == {"name", "dependencies"}

\* The caller changes a record of the mapping delivered by releases.
Change ==
  /\ pipeline.pc = "released"
  /\ \E k \in DOMAIN pipeline.heap[pipeline.mapping.val].at,
        field \in Changes :
       LET record == Get(pipeline.heap, pipeline.mapping, k) IN
       /\ ToBoolean(Get(pipeline.heap, record, "tag"))
       /\ pipeline' =
            [pipeline EXCEPT
               !.pc = "changed",
               !.heap =
                 IF field = "name"
                 THEN Put(@, record, "name", Text("changed"))
                 ELSE Put(@, Get(@, record, "dependencies"), "changed",
                          Text("1.0.0"))]
  /\ UNCHANGED <<config, calls, objects, client>>

NextPackages == Normalize \/ Releases \/ Details \/ Licensed \/ Change

SpecPackages == InitPackages /\ [][NextPackages]_vars

\* -------------------------------------- claims on normalize.packages

\* The document as it was received, and the object it was (if it was one).
WasObject == pipeline.raw.value.kind = "ref"

RawField(k) == Get(pipeline.raw.heap, pipeline.raw.value, k)

\* The document has been normalized once.
NormalizedOnce == pipeline.pc = "normalized" /\ WasObject

\* A field of the normalized document.
Field(k) == Get(pipeline.heap, pipeline.returned, k)

\* The release identifiers of the raw document: the keys of `versions`,
\* or of `times` when there is no `versions`.
Identifiers ==
  ObjectKeys(pipeline.raw.heap, Or(RawField("versions"), RawField("times")))

\* The identifiers that are valid versions, newest first.
Newest == Sorted(SelectSeq(Identifiers, clean))

\* C11: after a raw object is normalized, `releases` holds exactly the
\* identifiers that are valid semantic versions, newest first.
C11_ReleasesValidDescending ==
  NormalizedOnce => Field("releases") = Texts(Newest)

\* C12: after a raw object is normalized, `dist-tags` is a mapping with the
\* key `latest`, and when the raw document had no `latest` tag its value is
\* the newest valid version among the release identifiers.
C12_LatestIsNewest ==
  NormalizedOnce =>
    LET tags == Field("dist-tags") IN
    /\ tags.kind = "ref"
    /\ In(pipeline.heap, "latest", tags)
    /\ (~In(pipeline.raw.heap, "latest", RawField("dist-tags")) /\ Newest # <<>>)
         => Get(pipeline.heap, tags, "latest") = Text(Head(Newest))

\* C13: normalizing the result of a normalization gives a record equal to
\* the result of the first normalization.
C13_Idempotent ==
  (pipeline.pc = "normalized twice" /\ WasObject) =>
    Snapshot(pipeline.heap, pipeline.returned)
      = Snapshot(pipeline.once.heap, pipeline.once.value)

\* The fields a canonical package always has: every field with a default
\* but readme (dropped when empty), and releases, latest and dist-tags.latest.
WellFormed(h, package) ==
  /\ package.kind = "ref"
  /\ \A i \in DOMAIN Transforms :
       Transforms[i].key # "readme" => In(h, Transforms[i].key, package)
  /\ \A k \in {"releases", "latest", "dist-tags"} : In(h, k, package)
  /\ In(h, "latest", Get(h, package, "dist-tags"))

\* C14: for every input, normalization returns without throwing, and what
\* it returns is a well-formed canonical package.
C14_Total ==
  pipeline.pc \in {"normalized", "thrown"} =>
    /\ ~pipeline.threw
    /\ WellFormed(pipeline.heap, pipeline.returned)

\* C15: the raw document, with the version objects in it, is after the call
\* what it was before the call.
C15_RawUnchanged ==
  pipeline.pc \in {"normalized", "thrown"} =>
    Snapshot(pipeline.heap, pipeline.data)
      = Snapshot(pipeline.raw.heap, pipeline.raw.value)

\* The type of the default of a transform, and the default as a value.
DefaultType(transform) ==
  IF transform.value.kind = "literal" THEN "object" ELSE transform.value.kind

EmptyDefault(transform) ==
  IF transform.value.kind = "literal" THEN EmptyObject ELSE transform.value

\* C16: after a raw object is normalized, every field with a default that
\* is present has the type of its default, and a raw value, or a value of
\* the latest version, of another type has been replaced by the empty
\* default.
C16_DefaultedTypes ==
  NormalizedOnce =>
    \A i \in DOMAIN Transforms :
      LET key == Transforms[i].key
          taken == Or(RawField(key), Get(pipeline.heap, Field("latest"), key))
      IN In(pipeline.heap, key, pipeline.returned) =>
           /\ type(Field(key)) = DefaultType(Transforms[i])
           /\ (ToBoolean(taken) /\ type(taken) # DefaultType(Transforms[i]))
                => Snapshot(pipeline.heap, Field(key))
                     = EmptyDefault(Transforms[i])

\* A document whose description was a number and whose dependencies were
\* an array has been normalized: both hold their empty defaults.
C16_Witness ==
  /\ NormalizedOnce
  /\ RawField("description").kind = "number"
  /\ Field("description") = Text("")
  /\ RawField("dependencies").kind = "array"
  /\ Snapshot(pipeline.heap, Field("dependencies")) = EmptyObject
  /\ Get(pipeline.heap, Field("latest"), "description") = Text("one")

\* time.modified / time.created of the raw document
RawTime(k) == Get(pipeline.raw.heap, RawField("time"), k)

\* C17: after a raw object is normalized, modified and created are dates:
\* the explicit field, else the alias, else the one in `time`, else the
\* date the registry got spec'd.
C17_RealDates ==
  NormalizedOnce =>
    /\ Field("modified")
         = NewDate(Or(Or(Or(RawField("modified"), RawField("mtime")),
                         RawTime("modified")), Text(creation)))
    /\ Field("created")
         = NewDate(Or(Or(RawField("created"), RawTime("created")),
                      Text(creation)))

\* ------------------------------------------------- claims on releases

\* releases has acted on the normalization of a raw object.
Materialized ==
  WasObject /\ pipeline.pc \in {"released", "releases thrown", "changed"}

\* The same, before the caller has changed anything.
Yielded == WasObject /\ pipeline.pc \in {"released", "releases thrown"}

\* The versions and the dist-tags of the package, and their keys.
Versions == Field("versions")

Tags == Field("dist-tags")

VersionIds == ObjectKeys(pipeline.heap, Versions)

TagIds == ObjectKeys(pipeline.heap, Tags)

\* A record of the mapping as it is now, and as it was delivered.
Now(v) == Snapshot(pipeline.heap, v)

Delivered(v) == Snapshot(pipeline.delivered, v)

\* C18: releases yields one record for every entry of `versions` and one
\* for every entry of `dist-tags`, and after the caller has changed a
\* record with a tag, the records without a tag and the version objects
\* of the package are as they were delivered.
C18_RecordsIndependent ==
  Materialized =>
    /\ ~pipeline.threw
    /\ Len(pipeline.records) = Len(VersionIds) + Len(TagIds)
    /\ pipeline.pc = "changed" =>
         /\ \A k \in DOMAIN pipeline.heap[Versions.val].at :
              Now(Get(pipeline.heap, Versions, k))
                = Delivered(Get(pipeline.delivered, Versions, k))
         /\ \A i \in DOMAIN pipeline.records :
              ~ToBoolean(Get(pipeline.delivered, pipeline.records[i], "tag"))
                => Now(pipeline.records[i]) = Delivered(pipeline.records[i])

\* The identifier of the version the i-th record is made of, and the tag
\* the record has: the records of the versions come first, without a tag.
VersionOf(i) ==
  IF i <= Len(VersionIds) THEN VersionIds[i]
  ELSE KeyOf(Get(pipeline.heap, Tags, TagIds[i - Len(VersionIds)]))

TagOf(i) ==
  IF i <= Len(VersionIds) THEN Text("")
  ELSE Text(TagIds[i - Len(VersionIds)])

\* A member of the version object the i-th record is made of, as a value.
Source(i, k) ==
  Now(Get(pipeline.heap, Get(pipeline.heap, Versions, VersionOf(i)), k))

\* A member of the i-th record, as a value.
Member_(i, k) == Now(Get(pipeline.heap, pipeline.records[i], k))

\* The records hold the source's version, tag and dependencies, with
\* 0.0.0, the empty string and an empty mapping for what is missing, and
\* the entry of the time map, with one of `defaults` when it has none.
RecordsDefaulted(defaults) ==
  Yielded =>
    /\ pipeline.pc = "released"
         => Len(pipeline.records) = Len(VersionIds) + Len(TagIds)
    /\ \A i \in DOMAIN pipeline.records :
         /\ Member_(i, "version") = Or(Source(i, "version"), Text("0.0.0"))
         /\ Member_(i, "tag") = TagOf(i)
         /\ \A k \in {"dependencies", "devDependencies", "peerDependencies"} :
              Member_(i, k) = Or(Source(i, k), EmptyObject)
         /\ LET date == Get(pipeline.heap, Field("time"), VersionOf(i)) IN
            IF ToBoolean(date) THEN Member_(i, "date") = date
            ELSE Member_(i, "date") \in defaults

\* C19: every record has version 0.0.0, tag "" and empty dependency
\* mappings where the release has none, and the date of the time map, or
\* the date the registry got spec'd when the time map has no entry.
C19_CreationDefault ==
  RecordsDefaulted({Text(creation), NewDate(Text(creation))})

\* C19, amended: as above, with the string 1970-01-01T00:00:00.000Z as
\* the date when the time map has no entry.
C19_EpochDefault == RecordsDefaulted({Text(epoch)})

\* Records have been delivered with a date of the time map and with the
\* default date, with the default version and default dependencies, with
\* and without a tag.
C19_Witness ==
  /\ pipeline.pc = "released" /\ WasObject
  /\ \E i, j \in DOMAIN pipeline.records :
       /\ Member_(i, "date") = Date("2020-12-31T23:00:00.000Z")
       /\ Member_(i, "tag") = Text("latest")
       /\ Member_(i, "version") = Text("2.0.0")
       /\ Member_(j, "date") = Text(epoch)
       /\ Member_(j, "tag") = Text("")
       /\ Member_(j, "version") = Text("0.0.0")
       /\ Member_(j, "dependencies") = EmptyObject
       /\ Member_(j, "devDependencies") # EmptyObject

\* C20: releases asks the license resolver for the license of every
\* record and stores the answer under `license`; when the resolver fails
\* an error is delivered and no mapping.
C20_LicenseResolved ==
  Materialized =>
    /\ pipeline.resolver # "idle"
    /\ pipeline.resolver = "resolves" =>
         \A i \in DOMAIN pipeline.records :
           Get(pipeline.delivered, pipeline.records[i], "license") = Licenses
    /\ pipeline.resolver = "fails" =>
         pipeline.err /\ pipeline.mapping = Undefined

\* What releases does: it never asks the license resolver; the license of
\* a record is the `license` of its release, else its `licenses`, as they
\* are.
LicenseCopied ==
  Yielded =>
    /\ pipeline.resolver = "idle"
    /\ \A i \in DOMAIN pipeline.records :
         Member_(i, "license")
           = Or(Source(i, "license"), Source(i, "licenses"))

\* Records have been delivered with the license of a release and with
\* the licenses of another, one of them under a tag.
LicenseCopiedSeen ==
  /\ pipeline.pc = "released" /\ WasObject
  /\ pipeline.resolver = "idle"
  /\ \E i, j \in DOMAIN pipeline.records :
       /\ Member_(i, "license") = Text("MIT")
       /\ Member_(i, "tag") = Text("latest")
       /\ Member_(j, "license") = Arr(<<Text("BSD")>>)

\* ====================================================================
\* The send path again: back off, outstanding requests, the callback.
\* ====================================================================

\* The step starts a back off delay of call c, or counts a back off attempt.
BacksOff(c) ==
  \/ BackoffOf(c)'.attempt > BackoffOf(c).attempt
  \/ Len(Only(calls'[c].log, "backoff")) > Len(Only(calls[c].log, "backoff"))

\* C23: a send starts a back off delay, or counts a back off attempt, only
\* when its mirror pool is empty and every URL of the pull sequence has
\* been requested.
C23_BackoffAfterExhaustion ==
  [][\A c \in Plain :
       BacksOff(c) =>
         /\ calls[c].mirrors = <<>>
         /\ calls'[c].mirrors = <<>>
         /\ IsPrefix(ExpectedPull, UrlsOf(calls[c].log))]_vars

\* C23 witness: the first delay of a call started after the three URLs of
\* its pool were requested, each once.
C23_Witness ==
  \E c \in Plain :
    /\ calls[c].pc = "backoff"
    /\ BackoffOf(c).attempt = 1
    /\ Len(ExpectedPull) = 3
    /\ UrlsOf(calls[c].log) = ExpectedPull
    /\ calls[c].log[Len(calls[c].log)] = Delayed(1)

\* A request of call c has left and its answer has not been handled.
Outstanding(c) ==
  /\ calls[c].log /= <<>>
  /\ calls[c].log[Len(calls[c].log)].e = "request"
  /\ calls[c].pc /= "thrown"

\* The step handles the answer to the outstanding request of call c: the
\* failure is noted, the callback is invoked or the handler throws.
Completes(c) ==
  \/ calls'[c].pc = "thrown" /\ calls'[c].log = calls[c].log
  \/ /\ Len(calls'[c].log) > Len(calls[c].log)
     /\ SubSeq(calls'[c].log, 1, Len(calls[c].log)) = calls[c].log
     /\ calls'[c].log[Len(calls[c].log) + 1] \in {Failed, CalledBack}

\* Call d can take a step.
CanProceed(d) == ENABLED (Send(d) \/ Parse(d) \/ Timer(d))

\* C24: while a request of a send is outstanding the send does nothing
\* until the request completes (no other request, no back off, no
\* callback), and every other call that has not ended can take its step.
C24_StallsOnlyItself ==
  /\ [](\A c, d \in Calls :
          (Outstanding(c) /\ d /= c /\ ~Quiet(d)) => CanProceed(d))
  /\ [][\A c \in Calls :
          Outstanding(c) => (calls'[c] = calls[c] \/ Completes(c))]_vars

\* C24 witness: the first request of one call is still outstanding while
\* the other call, started after it, has gone through its pool and its
\* delays and delivered its terminal error.
C24_Witness ==
  \E c, d \in Calls :
    /\ c /= d
    /\ Outstanding(c)
    /\ calls[c].log = <<Requested(registry)>>
    /\ TerminalFailure(d)
    /\ Len(UrlsOf(calls[d].log)) > 1

\* C30: the callback of a send is invoked at most once, with an error or
\* with data and never both, and once it has been invoked the send does
\* nothing more.
C30_CallbackOnce ==
  /\ [](\A c \in Calls :
          /\ Callbacks(c) <= 1
          /\ Callbacks(c) = 1 =>
               /\ calls[c].pc = "done"
               /\ (calls[c].outcome.err = NoError)
                    /= (calls[c].outcome.data = Undefined))
  /\ [][\A c \in Calls : Callbacks(c) = 1 => calls'[c] = calls[c]]_vars

\* C30 witness: one call was given data and the other an error, each once,
\* and both have ended.
C30_Witness ==
  \E c, d \in Calls :
    /\ Callbacks(c) = 1 /\ Callbacks(d) = 1
    /\ calls[c].outcome.err = NoError /\ calls[c].outcome.data /= Undefined
    /\ calls[d].outcome.err /= NoError /\ calls[d].outcome.data = Undefined

\* ====================================================================
\* The package path again: name, keywords, the release mapping.
\* ====================================================================

\* A value is a string that is not empty.
NonEmptyString(v) == v.kind = "string" /\ v.val # ""

\* The candidates of line 185 in their order: the document's name and _id
\* as they came, then the name and _id of the version under `latest`.
NameCandidates ==
  <<RawField("name"), RawField("_id"),
    Get(pipeline.heap, Field("latest"), "name"),
    Get(pipeline.heap, Field("latest"), "_id")>>

\* The first truthy one of a sequence of values, undefined without one.
FirstTruthy(values) ==
  LET truthy == SelectSeq(values, ToBoolean) IN
  IF truthy = <<>> THEN values[Len(values)] ELSE Head(truthy)

\* C26 as claimed: after a raw object is normalized, name and _id are a
\* non-empty string, the first non-empty one of the document's name, the
\* document's _id, latest.name and latest._id.
C26_NameNonEmpty ==
  NormalizedOnce =>
    /\ NonEmptyString(Field("name"))
    /\ Field("_id") = Field("name")
    /\ Field("name") = FirstTruthy(NameCandidates)

\* C26 as amended: after a raw object is normalized, name and _id are the
\* same value, the first truthy one of the document's name, the document's
\* _id, latest.name and latest._id: a non-empty string when that candidate
\* is a string, and undefined when the document and its latest version
\* have neither a name nor an _id.
C26_NameFirstTruthy ==
  NormalizedOnce =>
    /\ Field("_id") = Field("name")
    /\ Field("name") = FirstTruthy(NameCandidates)
    /\ ToBoolean(FirstTruthy(NameCandidates)) =>
         (Field("name").kind = "string" => NonEmptyString(Field("name")))
    /\ (\A i \in DOMAIN NameCandidates : NameCandidates[i] = Undefined)
         => Field("name") = Undefined

\* C26 witness: the document's name is empty and its _id is taken, while
\* the latest version has a name of its own.
C26_Witness ==
  /\ NormalizedOnce
  /\ RawField("name") = Text("")
  /\ Field("name") = Text("y")
  /\ Field("_id") = Text("y")
  /\ Get(pipeline.heap, Field("latest"), "name") = Text("x")

\* C27 as claimed: when `keywords` of the raw document is a string, the
\* normalized `keywords` is the sequence of the parts of that string
\* between runs of white space and commas; and `keywords` of the result is
\* a sequence, or absent.
C27_KeywordsSplit ==
  NormalizedOnce =>
    /\ RawField("keywords").kind = "string" =>
         Field("keywords") = Texts(split(RawField("keywords").val))
    /\ \/ Field("keywords").kind = "array"
       \/ ~In(pipeline.heap, "keywords", pipeline.returned)

\* What the code gives instead: a string is replaced by the empty default
\* before line 192 is reached, whatever the latest version holds.
KeywordsEmptied ==
  NormalizedOnce =>
    /\ RawField("keywords").kind = "string" => Field("keywords") = Arr(<<>>)
    /\ Field("keywords").kind = "array"

\* The tag and the version of the i-th record, as delivered.
RecordTag(i) == Get(pipeline.delivered, pipeline.records[i], "tag")

RecordVersion(i) == Get(pipeline.delivered, pipeline.records[i], "version")

\* The key the claim gives the i-th record: its tag when it has one, its
\* version string otherwise.
RecordKey(i) ==
  IF RecordTag(i) # Text("") THEN RecordTag(i).val ELSE RecordVersion(i).val

\* The last record with the key k.
LastWith(k) ==
  CHOOSE i \in DOMAIN pipeline.records :
    /\ RecordKey(i) = k
    /\ \A j \in DOMAIN pipeline.records : RecordKey(j) = k => j <= i

\* C28: the release mapping has, for every record, an entry under the
\* record's tag, or under its version when it has no tag, and nothing else;
\* the records of the versions come before the records of the dist-tags;
\* the entry of a key is the last record with that key, so that a tag
\* named like a version has the tagged record.
C28_KeyedByTagElseVersion ==
  (pipeline.pc = "released" /\ WasObject) =>
    LET keys == {RecordKey(i) : i \in DOMAIN pipeline.records}
        held == ObjectKeys(pipeline.delivered, pipeline.mapping)
    IN /\ {held[i] : i \in DOMAIN held} = keys
       /\ \A i, j \in DOMAIN pipeline.records :
            (i < j /\ RecordTag(i) # Text("")) => RecordTag(j) # Text("")
       /\ \A i \in DOMAIN pipeline.records :
            i <= Len(VersionIds) <=> RecordTag(i) = Text("")
       /\ \A k \in keys :
            Get(pipeline.delivered, pipeline.mapping, k)
              = pipeline.records[LastWith(k)]
       /\ \A i, j \in DOMAIN pipeline.records :
            (RecordTag(i) = Text("") /\ RecordTag(j) # Text("")
               /\ RecordKey(i) = RecordKey(j))
            => /\ Get(pipeline.delivered, pipeline.mapping, RecordKey(i))
                    # pipeline.records[i]
               /\ Get(pipeline.delivered,
                      Get(pipeline.delivered, pipeline.mapping, RecordKey(i)),
                      "tag") = Text(RecordKey(i))

\* C28 witness: the dist-tag 1.0.0 points to version 2.0.0, and the entry
\* 1.0.0 of the mapping is the tagged record of version 2.0.0, not the
\* record of version 1.0.0.
C28_Witness ==
  /\ pipeline.pc = "released" /\ WasObject
  /\ \E i, j \in DOMAIN pipeline.records :
       /\ RecordTag(i) = Text("") /\ RecordVersion(i) = Text("1.0.0")
       /\ RecordTag(j) = Text("1.0.0") /\ RecordVersion(j) = Text("2.0.0")
       /\ Get(pipeline.delivered, pipeline.mapping, "1.0.0")
            = pipeline.records[j]

\* ====================================================================
\* The user normalizer: users(data) of src/normalize/users.js.
\* ====================================================================

\* ------------------------------------------------------------ strings

\* The strings of a profile are held as the sequences of their characters
\* (Str), so that the regular expressions read them as the code does.
Https == <<"h", "t", "t", "p", "s", ":", "/", "/">>

GithubCom == <<"g", "i", "t", "h", "u", "b", ".", "c", "o", "m", "/">>

GitHubCom == <<"G", "i", "t", "H", "u", "b", ".", "c", "o", "m", "/">>

TwitterCom == <<"t", "w", "i", "t", "t", "e", "r", ".", "c", "o", "m", "/">>

\* String(undefined)
UndefinedChars == <<"u", "n", "d", "e", "f", "i", "n", "e", "d">>

\* The `.` of a regular expression, as an element of a pattern.
AnyChar == "any"

\* character.toLowerCase(), for the capitals the profiles hold.
Lower(c) ==
  CASE c = "G" -> "g"
    [] c = "H" -> "h"
    [] c = "F" -> "f"
    [] OTHER -> c

\* !!value for the values of a profile.
Present(v) ==
  CASE v.kind \in {"undefined", "null"} -> FALSE
    [] v.kind = "number" -> v.val # 0
    [] v.kind = "string" -> Len(v.val) > 0
    [] OTHER -> TRUE

\* String(value), for what is given to exec.
ToChars(v) ==
  CASE v.kind = "string" -> v.val
    [] v.kind = "number" -> <<"7">>
    [] OTHER -> UndefinedChars

\* ------------------------------------------------ regular expressions

\* The characters of `pattern` are at position i of text, whatever their
\* case (flag i); the `.` stands for any character but a line end.
LiteralAt(text, i, pattern) ==
  /\ i + Len(pattern) - 1 <= Len(text)
  /\ \A j \in 1..Len(pattern) :
       IF pattern[j] = AnyChar THEN text[i + j - 1] # "\n"
       ELSE Lower(text[i + j - 1]) = pattern[j]

\* The last position of the longest run of characters from position p on
\* that are in `class` (inside) or all out of it (p - 1 when there is
\* none).
RunEnd(text, p, class, inside) ==
  LET ends == {e \in (p - 1)..Len(text) :
                 \A j \in p..e : (text[j] \in class) = inside}
  IN CHOOSE e \in ends : \A f \in ends : f <= e

NoMatch == [found |-> FALSE, lastIndex |-> 0, group |-> <<>>]

\* pattern, then [class]{0,} when the expression has one, ([^\/]+) and \/?
\* tried at position i of text: the class and the group are greedy, and
\* the class gives characters back until the group has one to take.
MatchAt(text, i, pattern, class) ==
  IF ~LiteralAt(text, i, pattern) THEN NoMatch
  ELSE LET s == i + Len(pattern)
           starts == {p \in s..(RunEnd(text, s, class, TRUE) + 1) :
                        p <= Len(text) /\ text[p] # "/"}
       IN IF starts = {} THEN NoMatch
          ELSE LET p == CHOOSE q \in starts : \A r \in starts : r <= q
                   e == RunEnd(text, p, {"/"}, FALSE)
               IN [found |-> TRUE,
                   lastIndex |-> IF e < Len(text) /\ text[e + 1] = "/"
                                 THEN e + 1 ELSE e,
                   group |-> SubSeq(text, p, e)]

\* regexp.exec(text) of an expression with the flag g whose lastIndex is
\* `lastIndex`: the leftmost match that starts at lastIndex or after it,
\* with the lastIndex it leaves; null, and lastIndex 0, without one.
Exec(text, lastIndex, pattern, class) ==
  LET found == {i \in (lastIndex + 1)..Len(text) :
                  MatchAt(text, i, pattern, class).found}
  IN IF found = {} THEN NoMatch
     ELSE MatchAt(text, CHOOSE i \in found : \A j \in found : i <= j,
                  pattern, class)

\* text.replace(/^prefix/i, ''), the prefix being one of `prefixes`.
Stripped(text, prefixes) ==
  LET matching == {p \in prefixes : LiteralAt(text, 1, p)} IN
  IF matching = {} THEN text
  ELSE LET p == CHOOSE q \in matching : \A r \in matching : Len(r) <= Len(q)
       IN SubSeq(text, Len(p) + 1, Len(text))

\* text.replace(/^@*(.*)/, '$1'): the leading @ are dropped.
StripAts(text) ==
  SubSeq(text, RunEnd(text, 1, {"@"}, TRUE) + 1, Len(text))

Http == <<"h", "t", "t", "p", ":", "/", "/">>

Www == <<"w", "w", "w", ".">>

\* /^https?:\/\/(www\.)?github\.com\//i
GithubPrefixes ==
  {Http \o GithubCom, Https \o GithubCom,
   Http \o Www \o GithubCom, Https \o Www \o GithubCom}

\* /^https?:\/\/twitter.com\//i
TwitterPattern == <<"t", "w", "i", "t", "t", "e", "r", AnyChar, "c", "o", "m", "/">>

TwitterPrefixes == {Http \o TwitterPattern, Https \o TwitterPattern}

\* [#!@\/]
TwitterClass == {"#", "!", "@", "/"}

\* -------------------------------------------------------------- users

\* data[key] of a profile, a cell of its own keys.
Own(data, key) == IF key \in DOMAIN data.at THEN data.at[key] ELSE Undefined

\* What users has done: the profile, and whether a TypeError left it.
Normalized(data, threw) == [data |-> data, threw |-> threw]

\* Lines 20-30: github. test moves lastIndex behind its match and exec
\* goes on from there; [1] of null is a TypeError.
github(data) ==
  IF ~Present(Own(data, "github")) THEN Normalized(data, FALSE)
  ELSE IF Own(data, "github").kind # "string"
  THEN Normalized(DeleteCell(data, "github"), FALSE)
  ELSE LET text == Own(data, "github").val
           test == Exec(text, 0, GithubCom, {})
       IN IF test.found
          THEN LET exec == Exec(text, test.lastIndex, GithubCom, {}) IN
               IF exec.found
               THEN Normalized(PutCell(data, "github", Str(exec.group)), FALSE)
               ELSE Normalized(data, TRUE)
          ELSE Normalized(PutCell(data, "github",
                                  Str(Stripped(text, GithubPrefixes))),
                          FALSE)

\* Lines 37-51: twitter. exec is given data.twiter.
twitter(data) ==
  IF ~Present(Own(data, "twitter")) THEN Normalized(data, FALSE)
  ELSE IF Own(data, "twitter").kind # "string"
  THEN Normalized(DeleteCell(data, "twitter"), FALSE)
  ELSE LET text == Own(data, "twitter").val
           test == Exec(text, 0, TwitterPattern, TwitterClass)
       IN IF Head(text) = "@"
          THEN Normalized(PutCell(data, "twitter", Str(Tail(text))), FALSE)
          ELSE IF test.found
          THEN LET exec == Exec(ToChars(Own(data, "twiter")), test.lastIndex,
                                TwitterPattern, TwitterClass)
               IN IF exec.found
                  THEN Normalized(PutCell(data, "twitter", Str(exec.group)),
                                  FALSE)
                  ELSE Normalized(data, TRUE)
          ELSE Normalized(PutCell(data, "twitter",
                                  Str(Stripped(StripAts(text),
                                               TwitterPrefixes))),
                          FALSE)

\* users(data): {} for what is no object, else the profile itself.
users(data) ==
  IF "at" \notin DOMAIN data THEN Normalized(EmptyCell, FALSE)
  ELSE LET r == github(data) IN
       IF r.threw THEN r ELSE twitter(r.data)

\* ----------------------------------------------------------- profiles

Foo == <<"f", "o", "o">>

Baz == <<"b", "a", "z">>

GithubOptions ==
  {Absent,
   Member("github", Num(7)),
   Member("github", Str(<<>>)),
   Member("github", Str(Foo)),
   Member("github", Str(Https \o GithubCom \o Foo \o <<"/">>)),
   Member("github", Str(Https \o GithubCom \o Foo)),
   Member("github", Str(Http \o Www \o GitHubCom \o <<"F", "o", "o">>)),
   Member("github", Str(Https \o GithubCom)),
   Member("github", Str(GithubCom \o <<"a", "/">> \o GithubCom \o <<"b">>))}

TwitterOptions ==
  {Absent,
   Member("twitter", Num(7)),
   Member("twitter", Str(<<"@", "b", "a", "r">>)),
   Member("twitter", Str(Baz)),
   Member("twitter", Str(Https \o TwitterCom \o Baz)),
   Member("twitter", Str(Https \o TwitterCom \o <<"#", "!", "/">> \o Baz)),
   Member("twitter", Str(Https \o TwitterCom))}

\* The object of a profile, by its members.
RECURSIVE Profile(_)
Profile(pairs) ==
  IF pairs = <<>> THEN EmptyCell
  ELSE PutCell(Profile(SubSeq(pairs, 1, Len(pairs) - 1)),
               pairs[Len(pairs)][1], pairs[Len(pairs)][2])

\* A profile is about to be handed to the normalizer.
Received(data) ==
  [pc |-> "profile", raw |-> data, returned |-> Undefined, threw |-> FALSE]

InitUsers ==
  /\ registry = "http://p/"
  /\ mirrors = <<>>
  /\ retries = 1
  /\ calls = [c \in Calls |-> NewCall]
  /\ objects = NewObjects
  /\ client = NoClient
  /\ \/ \E g \in GithubOptions, t \in TwitterOptions,
            name \in {Absent, Member("name", Str(Foo))} :
          pipeline = Received(Profile(name \o g \o t))
     \/ \E data \in NoObjects : pipeline = Received(data)

\* normalize.users(data): the normalizer is applied to the profile.
NormalizeUser ==
  /\ pipeline.pc = "profile"
  /\ LET r == users(pipeline.raw) IN
     pipeline' = [pipeline EXCEPT
                    !.pc = IF r.threw THEN "user thrown" ELSE "user",
                    !.returned = r.data,
                    !.threw = r.threw]
  /\ UNCHANGED <<config, calls, objects, client>>

NextUsers == NormalizeUser

SpecUsers == InitUsers /\ [][NextUsers]_vars

\* The profile has gone through the normalizer (it returned, or threw).
UserNormalized ==
  pipeline.pc \in {"user", "user thrown"} /\ "at" \in DOMAIN pipeline.raw

\* What follows the address of the site in a profile link, without the
\* slash at its end.
HandleOf(text, prefixes) ==
  LET rest == Stripped(text, prefixes) IN
  IF rest # <<>> /\ rest[Len(rest)] = "/"
  THEN SubSeq(rest, 1, Len(rest) - 1) ELSE rest

\* The text is a link to a profile: the address of the site and a name.
IsProfileLink(text, prefixes) ==
  /\ Stripped(text, prefixes) # text
  /\ HandleOf(text, prefixes) # <<>>
  /\ \A i \in DOMAIN HandleOf(text, prefixes) :
       HandleOf(text, prefixes)[i] # "/"

\* The value is a string of characters.
IsChars(v) == v.kind = "string"

\* C21 as claimed: the user normalizer returns the profile and does not
\* throw; a github that is a link to a GitHub profile has become the user
\* name, a twitter that is @name or a link to a Twitter profile has become
\* the bare handle.
C21_ProfileLinksCollapsed ==
  UserNormalized =>
    LET github_ == Own(pipeline.raw, "github")
        twitter_ == Own(pipeline.raw, "twitter")
    IN /\ ~pipeline.threw
       /\ (IsChars(github_) /\ IsProfileLink(github_.val, GithubPrefixes)) =>
            Own(pipeline.returned, "github")
              = Str(HandleOf(github_.val, GithubPrefixes))
       /\ (IsChars(twitter_) /\ twitter_.val # <<>>
             /\ Head(twitter_.val) = "@") =>
            Own(pipeline.returned, "twitter") = Str(Tail(twitter_.val))
       /\ (IsChars(twitter_) /\ IsProfileLink(twitter_.val, TwitterPrefixes)) =>
            Own(pipeline.returned, "twitter")
              = Str(HandleOf(twitter_.val, TwitterPrefixes))

\* What the code does with a link: a github in which github.com/name
\* occurs once, and a twitter in which twitter.com/name occurs, make the
\* normalizer throw; the @name form is the one that is collapsed.
LinksThrow ==
  UserNormalized =>
    LET github_ == Own(pipeline.raw, "github")
        twitter_ == Own(pipeline.raw, "twitter")
    IN /\ (IsChars(github_) /\ IsProfileLink(github_.val, GithubPrefixes)) =>
            pipeline.threw
       /\ (~pipeline.threw /\ IsChars(twitter_) /\ twitter_.val # <<>>
             /\ Head(twitter_.val) = "@") =>
            Own(pipeline.returned, "twitter") = Str(Tail(twitter_.val))
       /\ (IsChars(twitter_) /\ IsProfileLink(twitter_.val, TwitterPrefixes)) =>
            pipeline.threw

\* ====================================================================
\* The facade: Registry.define and the lazily defined endpoints, the
\* options of send, and view of src/index.js; Users.prototype.starred.
\* ====================================================================

\* Most reads of the properties a caller makes.
MaxReads == 3

\* The Registry instances of the caller and the properties define gives
\* their prototype.
Instances == {"r1", "r2"}

Names == {"users", "packages"}

\* A function, such as the callback of a call.
Fn == [kind |-> "function", val |-> "fn"]

\* The instance has no own property of that name: a read goes to the
\* getter of the prototype, an assignment to its setter.
Inherited == [kind |-> "inherited", val |-> <<>>]

\* this.authorization: r1 was given no credential, r2 was given one.
authorization(i) == IF i = "r1" THEN Undefined ELSE Text("Basic dTpw")

\* Registry.prototype.type
registryType(of) ==
  CASE of.kind = "ref" -> "object"
    [] OTHER -> of.kind

\* The keys of the object args builds.
ArgKeys ==
  {"function", "fn", "object", "options", "string", "str", "number", "nr",
   "undefined", "null", "boolean", "array"}

alias(t) ==
  CASE t = "function" -> "fn"
    [] t = "object" -> "options"
    [] t = "string" -> "str"
    [] t = "number" -> "nr"
    [] OTHER -> t

\* Registry.prototype.args: every argument under the name of its type and
\* under the alias of that type, a later one over an earlier one.
RECURSIVE parser(_)
parser(arguments) ==
  IF arguments = <<>> THEN [k \in ArgKeys |-> Undefined]
  ELSE LET value == arguments[Len(arguments)] IN
       [parser(SubSeq(arguments, 1, Len(arguments) - 1))
          EXCEPT ![registryType(value)] = value,
                 ![alias(registryType(value))] = value]

\* ---------------------------------------------------- Registry.define

\* new Registry.Users(this), new Registry.Packages(this)
Endpoint(name, api) == [kind |-> name, api |-> api]

\* What a read or an assignment has done: the own properties, the
\* endpoints constructed so far, the value handed back.
Defined(own, endpoints, value) ==
  [own |-> own, endpoints |-> endpoints, value |-> value]

\* The getter that hands the endpoint back without defining it on the
\* instance.
getUndefined(own, endpoints, i, name) ==
  IF own[i][name] # Inherited THEN Defined(own, endpoints, own[i][name])
  ELSE Defined(own, Append(endpoints, Endpoint(name, i)),
               Ref(Len(endpoints) + 1))

\* instance[name]: the own property when there is one, else get() of the
\* prototype, which constructs the endpoint and defines it on the instance.
get(own, endpoints, i, name) ==
  IF own[i][name] # Inherited THEN Defined(own, endpoints, own[i][name])
  ELSE Defined([own EXCEPT ![i][name] = Ref(Len(endpoints) + 1)],
               Append(endpoints, Endpoint(name, i)),
               Ref(Len(endpoints) + 1))

\* instance[name] = value: set() of the prototype defines the property;
\* an own property is not writable and stays.
set(own, endpoints, i, name, value) ==
  IF own[i][name] # Inherited THEN Defined(own, endpoints, value)
  ELSE Defined([own EXCEPT ![i][name] = value], endpoints, value)

\* ------------------------------------------------- the options of send

\* 'npmjs/'+ this.version +' node/'+ process.version, a string that is
\* not empty.
UserAgent == "npmjs/undefined node/v0.10.0"

\* The headers send adds, in its order.
Headers(i) ==
  << [key |-> "User-Agent", value |-> Text(UserAgent)],
     [key |-> "Authorization", value |-> authorization(i)],
     [key |-> "Accept", value |-> Text("application/json")] >>

\* key.toLowerCase() for the names of the headers.
toLowerCase(key) ==
  CASE key \in {"User-Agent", "USER-AGENT", "user-agent"} -> "user-agent"
    [] key \in {"Authorization", "AUTHORIZATION", "authorization"} ->
         "authorization"
    [] key \in {"Accept", "ACCEPT", "accept"} -> "accept"
    [] OTHER -> key

\* each that sets the header whatever the caller gave.
eachOverwrites(h, headers, header) ==
  CASE Evaluated(h) ->
      IF ~ToBoolean(header.value) THEN h
      ELSE Put(h, headers, header.key, header.value)

\* each(header)
each_(h, headers, header) ==
  CASE Evaluated(h) ->
      IF \/ In(h, header.key, headers)
         \/ In(h, toLowerCase(header.key), headers)
         \/ ~ToBoolean(header.value)
      THEN h
      ELSE Put(h, headers, header.key, header.value)

\* key in options ? options[from] : otherwise
Default(h, options, key, from, otherwise) ==
  IF In(h, key, options) THEN Get(h, options, from) ELSE otherwise

\* Lines 125-127: method, strictSSL, headers.
defaults(h, options) ==
  CASE Evaluated(h) ->
      LET g == Put(Put(h, options, "method",
                       Default(h, options, "method", "method", Text("GET"))),
                   options, "strictSSL",
                   Default(h, options, "strictSSL", "strictSSL",
                           [kind |-> "boolean", val |-> FALSE]))
      IN IF In(g, "headers", options) THEN g
         ELSE Put(New(g), options, "headers", Fresh(g))

\* The default values the constructor gives an instance.
mindelay == 100

maxdelay == 60000

factor == 2

\* Lines 128-133: options.backoff; the ceiling is read from
\* options.retires.
backoff(h, options) ==
  CASE Evaluated(h) ->
      LET g == New(h) IN
      Put(Put(Put(Put(Put(g, Fresh(h), "retries",
                          Default(h, options, "retries", "retires",
                                  Num(retries))),
                      Fresh(h), "minDelay",
                      Default(h, options, "mindelay", "mindelay",
                              Num(mindelay))),
                  Fresh(h), "maxDelay",
                  Default(h, options, "maxdelay", "maxdelay", Num(maxdelay))),
              Fresh(h), "factor",
              Default(h, options, "factor", "factor", Num(factor))),
          options, "backoff", Fresh(h))

\* Lines 139-158: the three headers, one after the other.
headers(h, options, i) ==
  CASE Evaluated(h) ->
      each_(each_(each_(h, Get(h, options, "headers"), Headers(i)[1]),
                  Get(h, options, "headers"), Headers(i)[2]),
            Get(h, options, "headers"), Headers(i)[3])

\* Lines 119-158 of send: the options object the requests are made with.
resolved(r, i) ==
  CASE Evaluated(r) ->
      Returned(headers(backoff(defaults(r.heap, r.value), r.value),
                       r.value, i),
               r.value)

options_(h, args, i) == resolved(OrNew(h, args["options"]), i)

\* ------------------------------------------------------ send and view

\* What a call through the facade has done: the options object it made,
\* the requests it issued, whether it threw instead of returning.
Called(h, value, requests, threw) ==
  [heap |-> h, options |-> value, requests |-> requests, threw |-> threw]

\* request(options, parse): the root and the path of options.uri, the key
\* of the options and the headers.
Issued(h, value, root, str) ==
  [uri |-> Resolve(root, str),
   key |-> Get(h, value, "key"),
   headers |-> Snapshot(h, Get(h, value, "headers"))]

\* downgraded(undefined, root, next) for the first root: url.resolve
\* takes strings; given another value it throws a TypeError, and a url
\* module that takes it resolves to the root.
requested(r, root, str, lenient) ==
  CASE Evaluated(r) ->
      IF str.kind # "string" /\ ~lenient
      THEN Called(r.heap, r.value, <<>>, TRUE)
      ELSE Called(r.heap, r.value, <<Issued(r.heap, r.value, root, str)>>,
                  FALSE)

\* send(...) on instance i, up to its first request.
sending(h, args, i, lenient) ==
  requested(options_(h, args, i), registry, args["str"], lenient)

\* Registry.prototype.view: this.send(args.fn)
view(h, arguments, i, lenient) ==
  sending(h, parser(<<parser(arguments)["fn"]>>), i, lenient)

\* The members of Registry.prototype and of an instance.
RegistryMembers ==
  {"args", "type", "send", "downgrade", "view", "packages", "users",
   "authorization", "mirrors", "registry", "mindelay", "maxdelay",
   "retries", "factor"}

\* .map(this.api.map.simple): the argument is evaluated when view has
\* returned; api.map is undefined, and reading its `simple` throws.
mapped(r) ==
  CASE Evaluated(r) ->
      IF r.threw \/ "map" \in RegistryMembers THEN r
      ELSE [r EXCEPT !.threw = TRUE]

\* Users.prototype.starred(name, fn) on the endpoint of instance i.
usersStarred(h, name, i, lenient) ==
  mapped(view(Load(h, Literal(Member("key", Text(name)))).heap,
              <<Text("browseStarUser"),
                Load(h, Literal(Member("key", Text(name)))).value, Fn>>,
              i, lenient))

\* -------------------------------------------------------------- actions

\* The headers a caller gives in the options of send.
HeadersOptions ==
  {Literal(<<>>),
   Literal(Member("User-Agent", Text("mine"))),
   Literal(Member("user-agent", Text("mine"))),
   Literal(Member("USER-AGENT", Text("mine"))),
   Literal(<< <<"accept", Text("text/html")>>,
              <<"authorization", Text("Bearer t")>> >>),
   Literal(Member("Authorization", Text("Bearer t"))),
   Literal(Member("ACCEPT", Text("text/html")))}

\* The arguments of a send: a path and a callback, and between them no
\* options, options without headers (some with parameters of the back
\* off), or options with headers.
SendOptions ==
  {<<Text(Path), Fn>>,
   <<Text(Path), Literal(<<>>), Fn>>,
   <<Text(Path),
     Literal(<< <<"method", Text("PUT")>>, <<"retries", Num(5)>> >>), Fn>>,
   <<Text(Path),
     Literal(<< <<"retries", Num(1)>>, <<"mindelay", Num(10)>>,
                <<"maxdelay", Num(500)>>, <<"factor", Num(3)>> >>), Fn>>,
   <<Text(Path), Literal(Member("maxdelay", Num(500))), Fn>>}
    \cup {<<Text(Path), Literal(Member("headers", given)), Fn>> :
            given \in HeadersOptions}

\* The arguments with their object literals on the heap.
RECURSIVE Loaded(_, _, _)
Loaded(h, arguments, i) ==
  IF i > Len(arguments) \/ ~Evaluated(h)
  THEN [heap |-> h, value |-> arguments]
  ELSE LET r == Load(h, arguments[i]) IN
       Loaded(r.heap, [arguments EXCEPT ![i] = r.value], i + 1)

\* The users whose stars are asked for.
UserNames == {"alice"}

NoCall == [pc |-> "none"]

\* The caller holds two instances and has touched nothing.
Facade ==
  [pc |-> "facade",
   own |-> [i \in Instances |-> [name \in Names |-> Inherited]],
   endpoints |-> <<>>,
   got |-> [i \in Instances |-> [name \in Names |-> <<>>]],
   reads |-> 0,
   assigned |-> FALSE,
   call |-> NoCall]

InitFacade ==
  /\ registry = "http://p/"
  /\ mirrors = <<>>
  /\ retries = 1
  /\ calls = [c \in Calls |-> NewCall]
  /\ objects = NewObjects
  /\ pipeline = NoDocument
  /\ client = Facade

\* The client after a read or an assignment that did d.
accessed(d, i, name, read) ==
  CASE Evaluated(d) ->
      [client EXCEPT
         !.own = d.own,
         !.endpoints = d.endpoints,
         !.got[i][name] = IF read THEN Append(@, d.value) ELSE @,
         !.reads = IF read THEN @ + 1 ELSE @,
         !.assigned = IF read THEN @ ELSE TRUE]

\* registry.users, registry.packages
Read(i, name) ==
  /\ client.reads < MaxReads
  /\ client' = accessed(get(client.own, client.endpoints, i, name),
                        i, name, TRUE)
  /\ UNCHANGED <<config, calls, objects, pipeline>>

\* registry.users = value
Assign(i, name) ==
  /\ ~client.assigned
  /\ client' = accessed(set(client.own, client.endpoints, i, name,
                            Text("mine")),
                        i, name, FALSE)
  /\ UNCHANGED <<config, calls, objects, pipeline>>

\* The client after a call through instance i that did r.
called(r, i, kind, given, d) ==
  CASE Evaluated(r) ->
      [client EXCEPT
         !.own = d.own,
         !.endpoints = d.endpoints,
         !.call = [pc |-> kind, api |-> i, given |-> given, heap |-> r.heap,
                   options |-> r.options, requests |-> r.requests,
                   threw |-> r.threw]]

\* registry.send(path, options, fn)
SendThrough(i) ==
  /\ client.call = NoCall
  /\ \E arguments \in SendOptions :
       client' =
         called(sending(Loaded(<<>>, arguments, 1).heap,
                        parser(Loaded(<<>>, arguments, 1).value), i, FALSE),
                i, "sent", arguments,
                Defined(client.own, client.endpoints, Undefined))
  /\ UNCHANGED <<config, calls, objects, pipeline>>

\* The endpoint the call goes through is not one: calling a member of
\* the value that was assigned throws.
NoEndpoint == Called(<<>>, Undefined, <<>>, TRUE)

\* registry.users.starred(name, fn): the property is read, and starred is
\* called on what it holds.
View(i) ==
  /\ client.call = NoCall
  /\ \E name \in UserNames, lenient \in BOOLEAN :
       LET d == get(client.own, client.endpoints, i, "users") IN
       client' =
         called(IF d.value.kind = "ref"
                THEN usersStarred(<<>>, name, d.endpoints[d.value.val].api, lenient)
                ELSE NoEndpoint,
                i, "viewed", name, d)
  /\ UNCHANGED <<config, calls, objects, pipeline>>

NextFacade ==
  \/ \E i \in Instances, name \in Names : Read(i, name) \/ Assign(i, name)
  \/ \E i \in Instances : SendThrough(i) \/ View(i)

SpecFacade == InitFacade /\ [][NextFacade]_vars

\* The values the reads of instance[name] have yielded, in order.
Reads(i, name) == client.got[i][name]

\* The caller assigned the property before reading it: the reads yield
\* what was assigned.
AssignedFirst(i, name) ==
  Reads(i, name) # <<>> /\ Reads(i, name)[1].kind # "ref"

\* C22: the first read of `users` or `packages` on an instance (that the
\* caller has not assigned) yields an endpoint object of that kind bound
\* to the instance, every later read on the instance yields the same
\* object, whatever the caller assigns in between, and reads of different
\* instances or of different properties yield different objects.
C22_LazyOnce ==
  client.pc = "facade" =>
    /\ \A i \in Instances, name \in Names :
         Reads(i, name) # <<>> =>
           /\ \A k \in DOMAIN Reads(i, name) :
                Reads(i, name)[k] = Reads(i, name)[1]
           /\ client.own[i][name] = Reads(i, name)[1]
           /\ ~AssignedFirst(i, name) =>
                /\ Reads(i, name)[1].val \in DOMAIN client.endpoints
                /\ client.endpoints[Reads(i, name)[1].val] = Endpoint(name, i)
    /\ \A i, j \in Instances, name, other \in Names :
         (<<i, name>> # <<j, other>>
            /\ Reads(i, name) # <<>> /\ Reads(j, other) # <<>>
            /\ ~AssignedFirst(i, name))
         => Reads(i, name)[1] # Reads(j, other)[1]

\* C22 witness: users was read twice on one instance and once on the
\* other: twice the same object, and another one bound to the other
\* instance.
C22_Witness ==
  /\ client.pc = "facade"
  /\ \E i, j \in Instances :
       /\ i # j
       /\ Len(Reads(i, "users")) = 2
       /\ Reads(i, "users")[1] = Reads(i, "users")[2]
       /\ Len(Reads(j, "users")) = 1
       /\ Reads(j, "users")[1] # Reads(i, "users")[1]
       /\ client.endpoints[Reads(j, "users")[1].val].api = j
       /\ client.endpoints[Reads(i, "users")[1].val].api = i

\* A send has been made through the facade.
Sent == client.pc = "facade" /\ client.call.pc = "sent"

\* The headers the caller gave, by name (none without options.headers).
GivenHeaders ==
  LET arguments == client.call.given
      given == IF Len(arguments) = 3
               THEN Load(<<>>, arguments[2]) ELSE Load(<<>>, Literal(<<>>))
  IN Snapshot(given.heap, Get(given.heap, given.value, "headers"))

Given == IF GivenHeaders.kind = "object" THEN GivenHeaders.val ELSE <<>>

\* The headers of the request, by name.
Resolved == client.call.requests[1].headers.val

\* The names among the headers `named_` that are `key` in some case.
Spelt(named_, key) ==
  {k \in DOMAIN named_ : toLowerCase(k) = toLowerCase(key)}

\* The headers of the request are the caller's, each with its value, and
\* for every default header: nothing more when the caller's headers hold
\* one of `taken(header)`, else the header with its default value when it
\* has one, else nothing.
HeadersResolved(taken(_)) ==
  /\ \A k \in DOMAIN Given : k \in DOMAIN Resolved /\ Resolved[k] = Given[k]
  /\ \A n \in DOMAIN Headers(client.call.api) :
       LET header == Headers(client.call.api)[n] IN
       IF taken(header) \cap DOMAIN Given # {} \/ ~ToBoolean(header.value)
       THEN Spelt(Resolved, header.key) = Spelt(Given, header.key)
       ELSE /\ Spelt(Resolved, header.key)
                 = Spelt(Given, header.key) \cup {header.key}
            /\ Resolved[header.key] = header.value
  /\ \A k \in DOMAIN Resolved :
       k \in DOMAIN Given
       \/ \E n \in DOMAIN Headers(client.call.api) :
            Headers(client.call.api)[n].key = k

\* Every spelling of the name of a header the caller may have used.
AnyCase(header) == Spelt(Given, header.key)

\* The name as send writes it, and in lower case.
AsWrittenOrLower(header) == {header.key, toLowerCase(header.key)}

\* C25 as claimed: send keeps every header of the caller and adds a
\* default header with a value only when the caller's headers hold no
\* name equal to its name under case-insensitive comparison; a default
\* header without a value is never added.
C25_CaseInsensitive == Sent => HeadersResolved(AnyCase)

\* C25 as amended: send keeps every header of the caller and adds a
\* default header with a value unless the caller's headers hold its name
\* as send writes it (User-Agent) or in lower case (user-agent); a name in
\* another case (USER-AGENT) is kept and the default header is added
\* beside it; a default header without a value is never added.
C25_ExactOrLowerCase == Sent => HeadersResolved(AsWrittenOrLower)

\* C25 witness: the instance without a credential sent with the caller's
\* user-agent: the request has it with the caller's value, Accept was
\* added and Authorization was not.
C25_Witness ==
  /\ Sent
  /\ client.call.api = "r1"
  /\ DOMAIN Given = {"user-agent"}
  /\ DOMAIN Resolved = {"user-agent", "Accept"}
  /\ Resolved["user-agent"] = Text("mine")
  /\ Resolved["Accept"] = Text("application/json")

\* starred has been called on the users endpoint of an instance.
Viewed ==
  /\ client.pc = "facade"
  /\ client.call.pc = "viewed"
  /\ client.own[client.call.api]["users"].kind = "ref"

\* The path of the registry that names a view.
ViewPath(name) ==
  CASE name = "browseStarUser" -> "/-/_view/browseStarUser"
    [] OTHER -> "/-/_view/"

\* C29 as claimed: users.starred(name, fn) returns without throwing and
\* has issued one request, whose path names the view browseStarUser and
\* whose key is the given name (so that the answer can be mapped and
\* delivered to fn).
C29_ViewRequested ==
  Viewed =>
    /\ ~client.call.threw
    /\ Len(client.call.requests) = 1
    /\ client.call.requests[1].uri[2] = Text(ViewPath("browseStarUser"))
    /\ client.call.requests[1].key = Text(client.call.given)

\* What the code does: starred throws; a request it has issued by then
\* has neither a path nor a key.
ViewDropsArguments ==
  Viewed =>
    /\ client.call.threw
    /\ \A n \in DOMAIN client.call.requests :
         /\ client.call.requests[n].uri = Resolve(registry, Undefined)
         /\ client.call.requests[n].key = Undefined

\* ====================================================================
\* The last claims: the number of requests, the options of the back off,
\* the releases of every normalized package.
\* ====================================================================

\* The distinct truthy URLs of [primary] + mirrors.
DistinctUrls ==
  {Configured[k] : k \in {j \in 1..Len(Configured) : Truthy(Configured[j])}}

GivenOptions ==
  LET arguments == client.call.given
      given == IF Len(arguments) = 3
               THEN Load(<<>>, arguments[2]) ELSE Load(<<>>, Literal(<<>>))
  IN Snapshot(given.heap, given.value).val

\* options.backoff of the call, by name.
Backoff ==
  Snapshot(client.call.heap,
           Get(client.call.heap, client.call.options, "backoff")).val

\* The value of the call's own option `key` when the caller gave one, else
\* the value of the client.
PerCall(key, configured) ==
  IF key \in DOMAIN GivenOptions THEN GivenOptions[key] ELSE Num(configured)

\* C32: the retry ceiling, the delays and the factor of a call's back off
\* are the values given in the options of that call where present, and the
\* client's values otherwise.
C32_PerCallBackoff ==
  Sent =>
    /\ Backoff["retries"] = PerCall("retries", retries)
    /\ Backoff["minDelay"] = PerCall("mindelay", mindelay)
    /\ Backoff["maxDelay"] = PerCall("maxdelay", maxdelay)
    /\ Backoff["factor"] = PerCall("factor", factor)

\* What send does: the delays and the factor are the call's own where
\* given, and a call that gives `retries` is left with no ceiling at all.
RetriesLost ==
  Sent =>
    /\ Backoff["retries"] =
         IF "retries" \in DOMAIN GivenOptions
         THEN Undefined ELSE Num(retries)
    /\ Backoff["minDelay"] = PerCall("mindelay", mindelay)
    /\ Backoff["maxDelay"] = PerCall("maxdelay", maxdelay)
    /\ Backoff["factor"] = PerCall("factor", factor)

\* A send with its own `retries`, delays and factor has been made.
PerCallGiven ==
  /\ Sent
  /\ {"retries", "mindelay", "maxdelay", "factor"} \subseteq DOMAIN GivenOptions
  /\ Backoff["factor"] = Num(3)

\* The version object a dist-tag points to (undefined when `versions` has
\* no such entry), and the `dist` of a version object.
Tagged(tag) == Get(pipeline.heap, Versions, KeyOf(Get(pipeline.heap, Tags, tag)))

DistOf(version) == Get(pipeline.heap, Get(pipeline.heap, Versions, version), "dist")

\* Some dist-tag points to no entry of `versions`; some version object has
\* no `dist`.
DanglingTag == \E i \in DOMAIN TagIds : Tagged(TagIds[i]).kind # "ref"

WithoutDist ==
  \E i \in DOMAIN VersionIds : DistOf(VersionIds[i]).kind \in {"undefined", "null"}

\* C33: for every normalized package, a package without versions, with a
\* dist-tag that points to an absent version or with a version that has no
\* `dist` included, releases completes without throwing and delivers a
\* mapping.
C33_ReleasesComplete ==
  Yielded =>
    /\ pipeline.pc = "released"
    /\ pipeline.mapping.kind = "ref"

\* What releases does: it throws exactly for the packages with a dist-tag
\* that points to no version or a version without `dist`, and delivers a
\* mapping for the others.
ReleasesThrow ==
  Yielded =>
    /\ pipeline.threw <=> (DanglingTag \/ WithoutDist)
    /\ ~pipeline.threw => pipeline.mapping.kind = "ref"

\* The three packages of C33, each after releases has thrown.
NoVersionsThrown ==
  /\ Yielded /\ pipeline.threw
  /\ VersionIds = <<>>
  /\ \E i \in DOMAIN TagIds : TagIds[i] = "latest"

AbsentVersionThrown ==
  /\ Yielded /\ pipeline.threw
  /\ VersionIds # <<>>
  /\ DanglingTag /\ ~WithoutDist

NoDistThrown ==
  /\ Yielded /\ pipeline.threw
  /\ WithoutDist /\ ~DanglingTag

====
